---- MODULE Spec2Model ----
(***************************************************************************)
(* A model of the listing search engine of the marketplace backend:        *)
(* the tokeniser, the inverted index and its incremental loader, BM25      *)
(* scoring, the query planner, and the cached, sorted, paginated query.    *)
(*                                                                         *)
(* Text is a sequence of one-character strings, so that splitting,         *)
(* lower-casing, suffix stripping and typo substitution are computed       *)
(* character by character as the Python code does.  A Python dict is a     *)
(* sequence of [k, v] records in insertion order.  An optional value is    *)
(* <<>> (None / False) or <<x>>.                                           *)
(***************************************************************************)
EXTENDS Integers, Sequences, FiniteSets, TLC

(***************************************************************************)
(* constants.py                                                            *)
(***************************************************************************)
SUFFIXES ==
    (1 :> {<<"s">>, <<"y">>, <<"d">>, <<"e">>,
           <<",">>, <<"+">>, <<"!">>, <<"?">>,
           <<".">>, <<":">>, <<";">>, <<"-">>,
           <<"_">>, <<"(">>, <<")">>, <<"[">>,
           <<"]">>, <<"{">>, <<"}">>, <<"'">>,
           <<"\"">>}) @@
    (2 :> {<<"e", "s">>, <<"l", "y">>, <<"e", "d">>, <<"i", "c">>,
           <<"a", "l">>, <<"e", "r">>, <<"o", "r">>, <<"a", "r">>,
           <<"e", "n">>, <<"e", "s">>}) @@
    (3 :> {<<"i", "n", "g">>, <<"i", "l", "y">>, <<"i", "o", "n">>, <<"f", "u", "l">>,
           <<"i", "s", "m">>, <<"o", "u", "s">>, <<"i", "f", "y">>, <<"i", "z", "e">>,
           <<"i", "s", "e">>, <<"i", "s", "t">>, <<"a", "t", "e">>, <<"a", "n", "t">>,
           <<"e", "n", "t">>, <<"p", "o", "d">>, <<"i", "s", "h">>}) @@
    (4 :> {<<"a", "b", "l", "e">>, <<"i", "b", "l", "e">>, <<"m", "e", "n", "t">>, <<"l", "e", "s", "s">>,
           <<"t", "i", "o", "n">>, <<"n", "e", "s", "s">>, <<"b", "o", "o", "k">>, <<"s", "h", "i", "p">>,
           <<"w", "a", "r", "d">>, <<"w", "i", "s", "e">>, <<"h", "o", "o", "d">>, <<"s", "o", "m", "e">>,
           <<"l", "i", "k", "e">>, <<"a", "n", "c", "e">>, <<"e", "n", "c", "e">>}) @@
    (5 :> {<<"a", "t", "i", "o", "n">>, <<"i", "t", "i", "o", "n">>, <<"l", "l", "i", "n", "g">>})

COMMON_TYPO_LETTERS ==
    ("t" :> <<"g", "r", "y", "h">>) @@
    ("o" :> <<"n", "i", "p", "u", "e">>) @@
    ("a" :> <<"s", "q", "w", "r", "o", "e", "u">>) @@
    ("s" :> <<"a", "d", "z">>) @@
    ("e" :> <<"w", "r", "d", "o">>) @@
    ("i" :> <<"o", "u", "y", "t", "e">>) @@
    ("u" :> <<"i", "o", "y", "a">>) @@
    ("r" :> <<"t", "e", "f">>) @@
    ("n" :> <<"m", "h", "b">>) @@
    ("l" :> <<"k", "o", "i">>) @@
    ("c" :> <<"x", "v", "z", "f">>) @@
    ("h" :> <<"g", "j", "k", "e">>) @@
    ("d" :> <<"s", "f", "e">>) @@
    ("y" :> <<"u", "i", "o">>) @@
    ("g" :> <<"h", "j", "f", "t">>) @@
    ("b" :> <<"n", "m", "v", "h">>) @@
    ("q" :> <<"w", "e", "a">>) @@
    ("grave" :> <<"q", "w", "e", "z", "a">>) @@  \* the grave accent character
    ("k" :> <<"j", "l", "o", "i">>) @@
    ("," :> <<"m">>) @@
    (";" :> <<"l">>)

UpperToLower ==
    ("A" :> "a") @@ ("B" :> "b") @@ ("C" :> "c") @@ ("D" :> "d") @@ ("E" :> "e") @@ ("F" :> "f") @@
    ("G" :> "g") @@ ("H" :> "h") @@ ("I" :> "i") @@ ("J" :> "j") @@ ("K" :> "k") @@ ("L" :> "l") @@
    ("M" :> "m") @@ ("N" :> "n") @@ ("O" :> "o") @@ ("P" :> "p") @@ ("Q" :> "q") @@ ("R" :> "r") @@
    ("S" :> "s") @@ ("T" :> "t") @@ ("U" :> "u") @@ ("V" :> "v") @@ ("W" :> "w") @@ ("X" :> "x") @@
    ("Y" :> "y") @@ ("Z" :> "z")

\* PROCESSED_SUFFIXES maps each suffix to its length; only membership is used.
PROCESSED_SUFFIXES == UNION {SUFFIXES[length] : length \in DOMAIN SUFFIXES}

\* list(SUFFIXES.keys())[-1]
LongestSuffix == 5

(***************************************************************************)
(* Python values                                                           *)
(***************************************************************************)
None == <<>>

Some(x) == <<x>>

\* Python truthiness of an optional value (False/None against a non-empty str)
Truthy(o) == o # <<>>

\* dict: membership
DHas(d, key) == \E i \in 1..Len(d) : d[i].k = key

\* dict.get(key, default)
DGet(d, key, default) ==
    IF DHas(d, key) THEN d[CHOOSE i \in 1..Len(d) : d[i].k = key].v ELSE default

\* d[key] = value: an existing key keeps its position, a new key goes last
DSet(d, key, value) ==
    IF DHas(d, key)
    THEN [i \in 1..Len(d) |-> IF d[i].k = key THEN [k |-> key, v |-> value] ELSE d[i]]
    ELSE Append(d, [k |-> key, v |-> value])

\* d.pop(key)
DPop(d, key) == SelectSeq(d, LAMBDA e : e.k # key)

\* list(d.keys())
DKeys(d) == [i \in 1..Len(d) |-> d[i].k]

\* list(d.values())
DValues(d) == [i \in 1..Len(d) |-> d[i].v]

\* str.lower()
Lower(text) ==
    [i \in 1..Len(text) |->
        IF text[i] \in DOMAIN UpperToLower THEN UpperToLower[text[i]] ELSE text[i]]

\* str.split(sep): every separator cuts, so "" gives [""] and "a  b" gives ["a", "", "b"]
RECURSIVE SplitFrom(_, _, _, _, _)
SplitFrom(text, sep, i, current, done) ==
    IF i > Len(text) THEN Append(done, current)
    ELSE IF text[i] = sep
         THEN SplitFrom(text, sep, i + 1, <<>>, Append(done, current))
         ELSE SplitFrom(text, sep, i + 1, Append(current, text[i]), done)

Split(text, sep) == SplitFrom(text, sep, 1, <<>>, <<>>)

\* sep.join(words)
RECURSIVE Join(_, _)
Join(words, sep) ==
    IF Len(words) = 0 THEN <<>>
    ELSE IF Len(words) = 1 THEN words[1]
    ELSE words[1] \o <<sep>> \o Join(Tail(words), sep)

\* term[-length:]
LastChars(term, length) ==
    IF length >= Len(term) THEN term ELSE SubSeq(term, Len(term) - length + 1, Len(term))

\* term[:-length]
DropLast(term, length) ==
    IF length >= Len(term) THEN <<>> ELSE SubSeq(term, 1, Len(term) - length)

\* list.index(x): 0 stands for the ValueError of an absent element
IndexOf(list, x) ==
    IF \E i \in 1..Len(list) : list[i] = x
    THEN CHOOSE i \in 1..Len(list) : list[i] = x /\ \A j \in 1..(i - 1) : list[j] # x
    ELSE 0

(***************************************************************************)
(* Search.tokeniseQuery                                                    *)
(***************************************************************************)
\* lines 56-63: the words of the lower-cased query, each once, all marked False
RECURSIVE CollectWords(_, _)
CollectWords(words, tokenisedQuery) ==
    IF Len(words) = 0 THEN tokenisedQuery
    ELSE CollectWords(Tail(words),
            IF Truthy(DGet(tokenisedQuery, Head(words), None))
            THEN tokenisedQuery
            ELSE DSet(tokenisedQuery, Head(words), None))

\* dict.update({word: value for word in words})
RECURSIVE UpdateAll(_, _, _)
UpdateAll(d, words, value) ==
    IF Len(words) = 0 THEN d
    ELSE UpdateAll(DSet(d, Head(words), value), Tail(words), value)

\* lines 80-86: the longest matching suffix is stripped, the stripped form points to the term
RECURSIVE StripSuffix(_, _, _)
StripSuffix(tokenisedQuery, term, length) ==
    IF length < 1 THEN tokenisedQuery
    ELSE IF LastChars(term, length) \in PROCESSED_SUFFIXES
         THEN DSet(tokenisedQuery, DropLast(term, length), Some(term))
         ELSE StripSuffix(tokenisedQuery, term, length - 1)

\* line 97: the term with the letter at index replaced by each neighbour of that letter
TypoVariants(term, index) ==
    LET typoLetters == COMMON_TYPO_LETTERS[term[index]]
    IN  [n \in 1..Len(typoLetters) |->
            SubSeq(term, 1, index - 1) \o <<typoLetters[n]>> \o SubSeq(term, index + 1, Len(term))]

\* lines 91-98
RECURSIVE AddTypos(_, _, _)
AddTypos(tokenisedQuery, term, index) ==
    IF index > Len(term) THEN tokenisedQuery
    ELSE AddTypos(
            IF term[index] \in DOMAIN COMMON_TYPO_LETTERS
            THEN UpdateAll(tokenisedQuery, TypoVariants(term, index), Some(term))
            ELSE tokenisedQuery,
            term, index + 1)

\* lines 66-98: one iteration of the loop over list(tokenisedQuery);
\* state is [count, dict]
TokeniseTerm(state, term, typoMitigation) ==
    IF Split(term, "-") # <<term>>
    THEN [count |-> state.count + Len(Split(term, "-")) - 1,
          dict  |-> UpdateAll(DPop(state.dict, term), Split(term, "-"), None)]
    ELSE LET stripped == IF Len(term) > 3
                         THEN StripSuffix(state.dict, term, LongestSuffix)
                         ELSE state.dict
         IN  [count |-> state.count,
              dict  |-> IF ~Truthy(DGet(stripped, term, Some(<<>>))) /\ typoMitigation
                        THEN AddTypos(stripped, term, 1)
                        ELSE stripped]

RECURSIVE TokeniseTerms(_, _, _)
TokeniseTerms(state, terms, typoMitigation) ==
    IF Len(terms) = 0 THEN state
    ELSE TokeniseTerms(TokeniseTerm(state, Head(terms), typoMitigation),
                       Tail(terms), typoMitigation)

\* returns [count |-> originalWordCount, dict |-> tokenisedQuery]
tokeniseQuery(query, typoMitigation) ==
    LET words == CollectWords(Split(Lower(query), " "), <<>>)
    IN  TokeniseTerms([count |-> Len(words), dict |-> words], DKeys(words), typoMitigation)


(***************************************************************************)
(* utils.quickSort and Search.sortScores                                   *)
(***************************************************************************)
\* the keys quickSort compares are numbers; a quotient is kept as <<numerator, denominator>>
\* with a positive denominator
KeyLess(a, b) == a[1] * b[2] < b[1] * a[2]

KeyEqual(a, b) == a[1] * b[2] = b[1] * a[2]

\* the key functions handed to quickSort, each a record naming its lambda (and holding
\* what the lambda closes over); Python tuples are 0-based
\*   sortScores:   lambda item: item[1]
\*   sortListings: basePrice (0 when None), rating, views, and for 'trending'
\*                 (currentTime - addedAt) / views if views > 0 else 1
ScoreKey == [name |-> "score"]

Key(key, x) ==
    CASE key.name = "score"    -> <<x[2], 1>>
      [] key.name = "price"    -> <<x.basePrice, 1>>
      [] key.name = "rating"   -> <<x.rating, 1>>
      [] key.name = "views"    -> <<x.views, 1>>
      [] key.name = "trending" -> IF x.views > 0 THEN <<key.currentTime - x.addedAt, x.views>>
                                  ELSE <<1, 1>>

RECURSIVE quickSort(_, _, _)
\* quickSort with the pivot alone in the middle
quickSortPivotOnly(listObj, key, reverse) ==
    IF Len(listObj) <= 1 THEN listObj
    ELSE LET pivot  == listObj[(Len(listObj) \div 2) + 1]
             left   == SelectSeq(listObj, LAMBDA x : KeyLess(Key(key, x), Key(key, pivot)))
             right  == SelectSeq(listObj, LAMBDA x : KeyLess(Key(key, pivot), Key(key, x)))
         IN  IF reverse
             THEN quickSort(right, key, reverse) \o <<pivot>> \o quickSort(left, key, reverse)
             ELSE quickSort(left, key, reverse) \o <<pivot>> \o quickSort(right, key, reverse)

\* quickSort(listObj, key, reverse)
quickSort(listObj, key, reverse) ==
    IF Len(listObj) <= 1 THEN listObj
    ELSE LET pivot  == listObj[(Len(listObj) \div 2) + 1]
             left   == SelectSeq(listObj, LAMBDA x : KeyLess(Key(key, x), Key(key, pivot)))
             middle == SelectSeq(listObj, LAMBDA x : KeyEqual(Key(key, x), Key(key, pivot)))
             right  == SelectSeq(listObj, LAMBDA x : KeyLess(Key(key, pivot), Key(key, x)))
         IN  IF reverse
             THEN quickSort(right, key, reverse) \o middle \o quickSort(left, key, reverse)
             ELSE quickSort(left, key, reverse) \o middle \o quickSort(right, key, reverse)

\* sortScores(queryScores): queryScores is a dict id -> score, items() are <<id, score>>
sortScores(queryScores) ==
    quickSort([i \in 1..Len(queryScores) |-> <<queryScores[i].k, queryScores[i].v>>],
              ScoreKey, TRUE)

(***************************************************************************)
(* The index store of ListingSearch.  An engine is the record of the       *)
(* fields set in __init__; the defaultdicts are dicts that gain a key with *)
(* the default value whenever a missing key is subscripted.                *)
(***************************************************************************)
\* ListingSearch.__init__
EmptyEngine ==
    [invertedTermDocIndex  |-> <<>>,
     categoryIndex         |-> <<>>,
     documentCount         |-> 0,
     documentFrequencies   |-> <<>>,
     averageDocumentLength |-> <<0, 1>>,
     corpusLength          |-> 0,
     termFrequencies       |-> <<>>]

\* defaultdict.__getitem__: the dict after d[key] was subscripted
Touch(d, key, default) == IF DHas(d, key) THEN d ELSE Append(d, [k |-> key, v |-> default])

\* self.invertedTermDocIndex[term][category][subCategory], the index after the subscripting
TouchBucket(index, term, category, subCategory) ==
    LET byCategory    == Touch(DGet(index, term, <<>>), category, <<>>)
        bySubCategory == Touch(DGet(byCategory, category, <<>>), subCategory, <<>>)
    IN  DSet(index, term, DSet(byCategory, category, bySubCategory))

\* self.invertedTermDocIndex[term][category], the index after the subscripting
TouchCategory(index, term, category) ==
    DSet(index, term, Touch(DGet(index, term, <<>>), category, <<>>))

\* the postings of one bucket (empty when a key of the path is missing)
Bucket(index, term, category, subCategory) ==
    DGet(DGet(DGet(index, term, <<>>), category, <<>>), subCategory, <<>>)

RECURSIVE Concat(_)
Concat(lists) == IF Len(lists) = 0 THEN <<>> ELSE Head(lists) \o Concat(Tail(lists))

\* [listing for subCategory in byCategory.values() for listing in subCategory]
CategoryPostings(bySubCategory) == Concat(DValues(bySubCategory))

\* [listing for category in byTerm.values() for subCategory in category.values() ...]
TermPostings(byCategory) ==
    Concat([i \in 1..Len(byCategory) |-> CategoryPostings(byCategory[i].v)])

RECURSIVE TouchBuckets(_, _, _, _)
TouchBuckets(index, terms, category, subCategory) ==
    IF Len(terms) = 0 THEN index
    ELSE TouchBuckets(TouchBucket(index, Head(terms), category, subCategory),
                      Tail(terms), category, subCategory)

RECURSIVE TouchCategories(_, _, _)
TouchCategories(index, terms, category) ==
    IF Len(terms) = 0 THEN index
    ELSE TouchCategories(TouchCategory(index, Head(terms), category), Tail(terms), category)

\* getIndexedListingsByFilters, run to exhaustion: [out |-> the postings yielded,
\* index |-> invertedTermDocIndex afterwards].  category, subCategory and term are optional.
getIndexedListingsByFilters(index, category, subCategory, term) ==
    IF category # None
    THEN IF subCategory # None
         THEN IF term = None
              THEN [out   |-> Concat([i \in 1..Len(index) |->
                                 Bucket(index, index[i].k, category[1], subCategory[1])]),
                    index |-> TouchBuckets(index, DKeys(index), category[1], subCategory[1])]
              ELSE [out   |-> Bucket(index, term[1], category[1], subCategory[1]),
                    index |-> TouchBucket(index, term[1], category[1], subCategory[1])]
         ELSE IF term = None
              THEN [out   |-> Concat([i \in 1..Len(index) |->
                                 CategoryPostings(DGet(index[i].v, category[1], <<>>))]),
                    index |-> TouchCategories(index, DKeys(index), category[1])]
              ELSE [out   |-> CategoryPostings(DGet(DGet(index, term[1], <<>>), category[1], <<>>)),
                    index |-> TouchCategory(index, term[1], category[1])]
    ELSE IF term = None \/ term = Some(<<>>)
         THEN [out   |-> Concat([i \in 1..Len(index) |-> TermPostings(index[i].v)]),
               index |-> index]
         ELSE [out   |-> TermPostings(DGet(index, term[1], <<>>)),
               index |-> Touch(index, term[1], <<>>)]

(***************************************************************************)
(* ListingSearch.processDocument                                           *)
(***************************************************************************)
\* line 213: the terms of the title followed by the terms of the description
DocumentTerms(title, description) ==
    DKeys(tokeniseQuery(title, FALSE).dict) \o DKeys(tokeniseQuery(description, FALSE).dict)

\* lines 215-218: rowTermFrequencies[term] += 1 for term in terms
RECURSIVE CountTerms(_, _)
CountTerms(terms, rowTermFrequencies) ==
    IF Len(terms) = 0 THEN rowTermFrequencies
    ELSE CountTerms(Tail(terms),
            DSet(rowTermFrequencies, Head(terms), DGet(rowTermFrequencies, Head(terms), 0) + 1))

\* line 222: self.invertedTermDocIndex[term][category][subCategory].append((id, freq))
AppendPosting(index, term, category, subCategory, posting) ==
    LET touched       == TouchBucket(index, term, category, subCategory)
        byCategory    == DGet(touched, term, <<>>)
        bySubCategory == DGet(byCategory, category, <<>>)
    IN  DSet(touched, term,
             DSet(byCategory, category,
                  DSet(bySubCategory, subCategory,
                       Append(DGet(bySubCategory, subCategory, <<>>), posting))))

\* lines 220-222: one iteration of the loop over rowTermFrequencies.items()
IndexTerm(engine, id, category, subCategory, term, freq) ==
    [engine EXCEPT
        !.documentFrequencies  = DSet(@, term, DGet(@, term, 0) + 1),
        !.invertedTermDocIndex = AppendPosting(@, term, category, subCategory, <<id, freq>>)]

RECURSIVE IndexTerms(_, _, _, _, _)
IndexTerms(engine, id, category, subCategory, row) ==
    IF Len(row) = 0 THEN engine
    ELSE IndexTerms(IndexTerm(engine, id, category, subCategory, Head(row).k, Head(row).v),
                    id, category, subCategory, Tail(row))

\* lines 224-225
FinishDocument(engine, id, category, subCategory, row) ==
    [engine EXCEPT
        !.categoryIndex   = DSet(Touch(@, category, <<>>), category,
                                 DSet(DGet(@, category, <<>>), subCategory,
                                      Append(DGet(DGet(@, category, <<>>), subCategory, <<>>), id))),
        !.termFrequencies = DSet(@, id, row)]

\* processDocument run by itself, with no other thread interleaved
processDocument(engine, description, id, title, category, subCategory) ==
    LET terms == DocumentTerms(title, description)
        row   == CountTerms(terms, <<>>)
        sized == [engine EXCEPT !.corpusLength = @ + Len(terms)]
    IN  FinishDocument(IndexTerms(sized, id, category, subCategory, row),
                       id, category, subCategory, row)

\* lines 201-202 of loadTable; averageDocumentLength is kept as the fraction <<num, den>>
CountBatch(engine, batchSize) ==
    [engine EXCEPT
        !.documentCount         = @ + batchSize,
        !.averageDocumentLength = <<engine.corpusLength, engine.documentCount + batchSize>>]

(***************************************************************************)
(* ListingSearch.scoreTerm.  Python floats are kept in fixed point: a      *)
(* score is an integer number of millionths.                               *)
(***************************************************************************)
LnMicroTable ==
    <<      0,  693147, 1098612, 1386294, 1609438, 1791759, 1945910, 2079442,
      2197225, 2302585, 2397895, 2484907, 2564949, 2639057, 2708050, 2772589,
      2833213, 2890372, 2944439, 2995732, 3044522, 3091042, 3135494, 3178054,
      3218876, 3258097, 3295837, 3332205, 3367296, 3401197, 3433987, 3465736,
      3496508, 3526361, 3555348, 3583519, 3610918, 3637586, 3663562, 3688879,
      3713572, 3737670, 3761200, 3784190, 3806662, 3828641, 3850148, 3871201,
      3891820, 3912023, 3931826, 3951244, 3970292, 3988984, 4007333, 4025352,
      4043051, 4060443, 4077537, 4094345, 4110874, 4127134, 4143135, 4158883,
      4174387, 4189655, 4204693, 4219508, 4234107, 4248495, 4262680, 4276666,
      4290459, 4304065, 4317488, 4330733, 4343805, 4356709, 4369448, 4382027,
      4394449, 4406719, 4418841, 4430817, 4442651, 4454347, 4465908, 4477337,
      4488636, 4499810, 4510860, 4521789, 4532599, 4543295, 4553877, 4564348,
      4574711, 4584967, 4595120, 4605170, 4615121, 4624973, 4634729, 4644391,
      4653960, 4663439, 4672829, 4682131, 4691348, 4700480, 4709530, 4718499,
      4727388, 4736198, 4744932, 4753590, 4762174, 4770685, 4779123, 4787492,
      4795791, 4804021, 4812184, 4820282, 4828314, 4836282, 4844187, 4852030,
      4859812>>

\* the float 1.0, in millionths
One == 1000000

\* math.log(n) for an integer n, in millionths
LnMicro(n) == LnMicroTable[n]

\* self.k1 = 1.5, counted in halves
K1Halves == 3

\* self.b = 0.75, counted in quarters
BQuarters == 3

\* the argument of math.log is (N - df + 0.5) / (df + 0.5) = (2N - 2df + 1) / (2df + 1);
\* math.log raises ValueError unless it is positive, and documentLength / documentCount
\* raises ZeroDivisionError when documentCount is 0
ScoreError(documentCount, df) ==
    IF 2 * documentCount - 2 * df + 1 <= 0 THEN "math domain error"
    ELSE IF documentCount = 0 THEN "division by zero"
    ELSE "none"

\* idf * (tf * (k1 + 1)) / (tf + k1 * (1 - b + b * documentLength / documentCount)),
\* both sides of the division multiplied by 8 * documentCount; the quotient
\* idf * numerator / denominator is taken in two parts to stay within 32 bits
BM25Micro(documentCount, df, documentLength, tf) ==
    LET idf         == LnMicro(2 * documentCount - 2 * df + 1) - LnMicro(2 * df + 1)
        numerator   == tf * (K1Halves + 2) * 4 * documentCount
        denominator == 8 * documentCount * tf
                         + K1Halves * (4 - BQuarters) * documentCount
                         + K1Halves * BQuarters * documentLength
    IN  (idf \div denominator) * numerator + ((idf % denominator) * numerator) \div denominator

\* scoreTerm(documentLength, term, termFrequencies): [error, score, documentFrequencies];
\* self.documentFrequencies[term] subscripts a defaultdict(int)
scoreTerm(engine, documentLength, term, tf) ==
    LET df    == DGet(engine.documentFrequencies, term, 0)
        error == ScoreError(engine.documentCount, df)
    IN  [error |-> error,
         score |-> IF error = "none"
                   THEN BM25Micro(engine.documentCount, df, documentLength, tf)
                   ELSE 0,
         documentFrequencies |-> Touch(engine.documentFrequencies, term, 0)]

(***************************************************************************)
(* ListingSearch.queryDocuments                                            *)
(***************************************************************************)
\* lines 263-269: the loop body of _processQueryTerm; acc is [error, scores, engine, read],
\* read being the ids of the postings the loop has taken from the index
RECURSIVE ScorePostings(_, _, _)
ScorePostings(acc, term, postings) ==
    IF Len(postings) = 0 \/ acc.error # "none" THEN acc
    ELSE LET listingID      == Head(postings)[1]
             termFrequency  == Head(postings)[2]
             touched        == [acc.engine EXCEPT !.termFrequencies = Touch(@, listingID, <<>>)]
             documentLength == Len(DGet(touched.termFrequencies, listingID, <<>>))
             scored         == scoreTerm(touched, documentLength, term, termFrequency)
         IN  ScorePostings(
                [error  |-> scored.error,
                 scores |-> IF scored.error = "none"
                            THEN DSet(acc.scores, listingID,
                                      DGet(acc.scores, listingID, 0) + scored.score)
                            ELSE acc.scores,
                 engine |-> [touched EXCEPT !.documentFrequencies = scored.documentFrequencies],
                 read   |-> acc.read \cup {listingID}],
                term, Tail(postings))

\* _processQueryTerm(term): [error, scores, engine, read]
ProcessQueryTerm(engine, category, subCategory, term) ==
    IF ~DHas(engine.invertedTermDocIndex, term)
    THEN [error |-> "none", scores |-> <<>>, engine |-> engine, read |-> {}]
    ELSE LET listed == getIndexedListingsByFilters(engine.invertedTermDocIndex,
                                                   category, subCategory, Some(term))
         IN  ScorePostings([error  |-> "none", scores |-> <<>>,
                            engine |-> [engine EXCEPT !.invertedTermDocIndex = listed.index],
                            read   |-> {}],
                           term, listed.out)

\* queryScores[listingID] += score for every item of one term's scores
RECURSIVE AddScores(_, _)
AddScores(queryScores, scoresPerTerm) ==
    IF Len(scoresPerTerm) = 0 THEN queryScores
    ELSE AddScores(DSet(queryScores, Head(scoresPerTerm).k,
                        DGet(queryScores, Head(scoresPerTerm).k, 0) + Head(scoresPerTerm).v),
                   Tail(scoresPerTerm))

\* lines 273-286: every term is processed in turn and its scores are added up.  With more
\* than 4 terms the pool runs every term and the first error is raised when the results
\* are read; with fewer the list comprehension stops at the first error.
RECURSIVE ScoreTerms(_, _, _, _, _)
ScoreTerms(acc, category, subCategory, terms, pooled) ==
    IF Len(terms) = 0 \/ (acc.error # "none" /\ ~pooled) THEN acc
    ELSE LET one == ProcessQueryTerm(acc.engine, category, subCategory, Head(terms))
         IN  ScoreTerms(
                [error  |-> IF acc.error # "none" THEN acc.error ELSE one.error,
                 scores |-> IF acc.error = "none" /\ one.error = "none"
                            THEN AddScores(acc.scores, one.scores)
                            ELSE acc.scores,
                 engine |-> one.engine,
                 read   |-> acc.read \cup one.read],
                category, subCategory, Tail(terms), pooled)

\* SuggestionPositions with the comparison of line 298 the wrong way round
SuggestionPositionsLess(engine, tokenisedQuery, typoWords) ==
    {i \in 1..Len(tokenisedQuery) :
        /\ Len(DGet(engine.invertedTermDocIndex, tokenisedQuery[i], <<>>)) > 0
        /\ Truthy(DGet(typoWords, tokenisedQuery[i], None))
        /\ DGet(engine.documentFrequencies, tokenisedQuery[i], 0)
             < DGet(engine.documentFrequencies, DGet(typoWords, tokenisedQuery[i], None)[1], 0)}

\* line 293-298: the positions of tokenisedQuery whose term is indexed, was added for
\* another word, and is in more documents than that word
SuggestionPositions(engine, tokenisedQuery, typoWords) ==
    {i \in 1..Len(tokenisedQuery) :
        /\ Len(DGet(engine.invertedTermDocIndex, tokenisedQuery[i], <<>>)) > 0
        /\ Truthy(DGet(typoWords, tokenisedQuery[i], None))
        /\ DGet(engine.documentFrequencies, tokenisedQuery[i], 0)
             > DGet(engine.documentFrequencies, DGet(typoWords, tokenisedQuery[i], None)[1], 0)}

\* returnWithSuggestedQueryIfApplicable: [error, meta, scores]; meta is the optional
\* suggestedQuery
returnWithSuggestedQueryIfApplicable(engine, query, queryScores, tokenisedQuery, typoWords) ==
    LET positions == SuggestionPositions(engine, tokenisedQuery, typoWords)
    IN  IF positions = {}
        THEN [error |-> "none", meta |-> None, scores |-> sortScores(queryScores)]
        ELSE LET first    == CHOOSE i \in positions : \A j \in positions : i <= j
                 term     == tokenisedQuery[first]
                 originalQueryWords == Split(query, " ")
                 replacementIndex   == IndexOf(originalQueryWords, DGet(typoWords, term, None)[1])
             IN  IF replacementIndex = 0
                 THEN [error |-> "not in list", meta |-> None, scores |-> <<>>]
                 ELSE [error  |-> "none",
                       meta   |-> Some(Join(SubSeq(originalQueryWords, 1, replacementIndex - 1)
                                            \o <<term>>
                                            \o SubSeq(originalQueryWords, replacementIndex + 1,
                                                      Len(originalQueryWords)), " ")),
                       scores |-> sortScores(queryScores)]

\* lines 242-250: no query terms, every listing of the requested categories
FilterOnly(engine, category, subCategory) ==
    LET listed == getIndexedListingsByFilters(engine.invertedTermDocIndex,
                                              category, subCategory, None)
        ones   == [i \in 1..Len(listed.out) |-> [k |-> listed.out[i][1], v |-> One]]
    IN  [error  |-> "none", meta |-> None,
         scores |-> sortScores(AddScores(<<>>, ones)),
         engine |-> [engine EXCEPT !.invertedTermDocIndex = listed.index],
         read   |-> {listed.out[i][1] : i \in 1..Len(listed.out)}]

\* queryDocuments(query, category, subCategory): [error, meta, scores, engine, read], where
\* engine is the index store after the call; query, category and subCategory are optional
queryDocuments(engine, query, category, subCategory) ==
    LET tokenised      == IF query # None THEN tokeniseQuery(query[1], TRUE).dict ELSE <<>>
        typoWords      == SelectSeq(tokenised, LAMBDA e : Truthy(e.v))
        tokenisedQuery == DKeys(tokenised)
    IN  IF Len(tokenisedQuery) = 0
        THEN FilterOnly(engine, category, subCategory)
        ELSE LET scored == ScoreTerms([error |-> "none", scores |-> <<>>, engine |-> engine,
                                       read |-> {}],
                                      category, subCategory, tokenisedQuery,
                                      Len(tokenisedQuery) > 4)
                 answer == returnWithSuggestedQueryIfApplicable(
                               scored.engine, query[1], scored.scores, tokenisedQuery, typoWords)
             IN  IF scored.error # "none"
                 THEN [error |-> scored.error, meta |-> None, scores |-> <<>>,
                       engine |-> scored.engine, read |-> scored.read]
                 ELSE [error |-> answer.error, meta |-> answer.meta, scores |-> answer.scores,
                       engine |-> scored.engine, read |-> scored.read]

(***************************************************************************)
(* State                                                                   *)
(***************************************************************************)
VARIABLES
    \* the fields of the ListingSearch instance
    invertedTermDocIndex, categoryIndex, documentCount, documentFrequencies,
    averageDocumentLength, corpusLength, termFrequencies,
    \* time.time(), in whole seconds
    now,
    \* the listings table, in insertion order
    listings,
    \* loadTable: its position, its local lastTimestamp and newListings, the time at which
    \* time.sleep returns, and one record per submitted processDocument call
    loaderPc, lastTimestamp, newListings, wakeAt, workers,
    \* history: the listing ids fetched, processed (termFrequencies set), counted (added
    \* to documentCount) and averaged (in averageDocumentLength) so far
    audit,
    \* the calls made from outside the loader so far, and the last of them: its arguments,
    \* what it read, its outcome
    calls, lastCall,
    \* the dict of scores that sortScores is about to be given
    queryScores,
    \* the TTLCache of ListingSearch.query
    cache,
    \* history: the calls of ListingSearch.query so far
    log,
    \* the arguments of the static method or helper that is about to be called
    args,
    \* database.db, the SQLiteAdapter: its running flag, its query_queue with the count of
    \* unfinished tasks, the position and task of its _processQueue thread, its connection
    adapter,
    \* the skus and orders tables: the stock of the SKU, the status of the order, the
    \* payments made and the orders added
    tables,
    \* the threads that call into the adapter or serve an HTTP request, one record each
    requests

engineVars == <<invertedTermDocIndex, categoryIndex, documentCount, documentFrequencies,
                averageDocumentLength, corpusLength, termFrequencies>>

loaderVars == <<loaderPc, lastTimestamp, newListings, wakeAt, workers>>

callVars == <<calls, lastCall, queryScores, cache, log, args, adapter, tables, requests>>

vars == <<engineVars, now, listings, loaderVars, audit, callVars>>

\* the ListingSearch instance as one record
Engine ==
    [invertedTermDocIndex  |-> invertedTermDocIndex,
     categoryIndex         |-> categoryIndex,
     documentCount         |-> documentCount,
     documentFrequencies   |-> documentFrequencies,
     averageDocumentLength |-> averageDocumentLength,
     corpusLength          |-> corpusLength,
     termFrequencies       |-> termFrequencies]

\* the instance's fields become those of the record
EngineBecomes(engine) ==
    /\ invertedTermDocIndex'  = engine.invertedTermDocIndex
    /\ categoryIndex'         = engine.categoryIndex
    /\ documentCount'         = engine.documentCount
    /\ documentFrequencies'   = engine.documentFrequencies
    /\ averageDocumentLength' = engine.averageDocumentLength
    /\ corpusLength'          = engine.corpusLength
    /\ termFrequencies'       = engine.termFrequencies

\* the instance's fields are those of the record
EngineIs(engine) ==
    /\ invertedTermDocIndex  = engine.invertedTermDocIndex
    /\ categoryIndex         = engine.categoryIndex
    /\ documentCount         = engine.documentCount
    /\ documentFrequencies   = engine.documentFrequencies
    /\ averageDocumentLength = engine.averageDocumentLength
    /\ corpusLength          = engine.corpusLength
    /\ termFrequencies       = engine.termFrequencies

(***************************************************************************)
(* Bounds and the listings the model draws from                            *)
(***************************************************************************)
\* the clock stops here
MaxTime == 6

\* what sellers submit: title, description, subCategory, category
Submissions ==
    <<[title |-> <<"B", "l", "u", "e", " ", "W", "i", "d", "g", "e", "t">>,
       description |-> <<"t", "o", "o", "l">>,
       subCategory |-> "hand-tools", category |-> "tools"],
      [title |-> <<"R", "e", "d", " ", "W", "i", "d", "g", "e", "t">>,
       description |-> <<"t", "o", "o", "l">>,
       subCategory |-> "power-tools", category |-> "tools"],
      [title |-> <<"w", "i", "g", "e", "t">>,
       description |-> <<"t", "o", "y">>,
       subCategory |-> "games", category |-> "toys"],
      [title |-> <<"w", "u", "d", "g", "e", "t">>,
       description |-> <<"t", "o", "y">>,
       subCategory |-> "games", category |-> "toys"]>>

\* the submissions made while the loader runs
LoaderSubmissions == {3, 4}

(***************************************************************************)
(* The listings table                                                      *)
(***************************************************************************)
\* DataRepository.createListing and Queries.Listings.addListing: a row of the listings
\* table as listingBaseQuery shows it; id stands for the uuid4.  A new listing has no SKU,
\* review or view event: basePrice, rating and views are coalesced to 0 and totalStock,
\* NULL in SQL, fails totalStock > 0 as 0 does
ListingRow(id, submission, addedAt) ==
    [id          |-> id,
     title       |-> submission.title,
     description |-> submission.description,
     subCategory |-> submission.subCategory,
     category    |-> submission.category,
     addedAt     |-> addedAt,
     public      |-> TRUE,
     basePrice   |-> 0,
     totalStock  |-> 0,
     rating      |-> 0,
     views       |-> 0]

\* WHERE addedAt >= ?
getListingsSinceInclusive(table, timestamp) ==
    SelectSeq(table, LAMBDA row : row.addedAt >= timestamp)

\* Queries.Listings.getListingsSince: WHERE addedAt > ?
getListingsSince(table, timestamp) == SelectSeq(table, LAMBDA row : row.addedAt > timestamp)

(***************************************************************************)
(* The loader thread (ListingSearch.loadTable) and its pool workers        *)
(***************************************************************************)
\* loadExecutor.submit(self.processDocument, description, id, title, category, subCategory):
\* the call's arguments and locals; pc is its position, k the index of the loop over
\* rowTermFrequencies.items(), loaded the value read by the pending +=
Submitted(row) ==
    [id          |-> row.id,
     category    |-> row.category,
     subCategory |-> row.subCategory,
     terms       |-> DocumentTerms(row.title, row.description),
     row         |-> CountTerms(DocumentTerms(row.title, row.description), <<>>),
     pc          |-> "corpusLength",
     k           |-> 1,
     loaded      |-> 0]

\* line 178, then lines 183-195 when there are new listings
Fetch ==
    /\ loaderPc = "fetch"
    /\ newListings' = getListingsSince(listings, lastTimestamp)
    /\ audit' = [audit EXCEPT !.fetched = @ \cup {newListings'[i].id : i \in 1..Len(newListings')}]
    /\ IF Len(newListings') > 0
       THEN /\ workers' = [i \in 1..Len(newListings') |-> Submitted(newListings'[i])]
            /\ loaderPc' = "result"
       ELSE /\ workers' = <<>>
            /\ loaderPc' = "checkpoint"
    /\ UNCHANGED <<engineVars, now, listings, lastTimestamp, wakeAt, callVars>>

\* line 214, self.corpusLength += len(terms): the attribute is loaded ...
LoadCorpusLength(w) ==
    /\ w \in 1..Len(workers)
    /\ workers[w].pc = "corpusLength"
    /\ workers' = [workers EXCEPT ![w].loaded = corpusLength, ![w].pc = "storeCorpusLength"]
    /\ UNCHANGED <<engineVars, now, listings, loaderPc, lastTimestamp, newListings, wakeAt,
                   audit, callVars>>

\* ... and stored
StoreCorpusLength(w) ==
    /\ w \in 1..Len(workers)
    /\ workers[w].pc = "storeCorpusLength"
    /\ corpusLength' = workers[w].loaded + Len(workers[w].terms)
    /\ workers' = [workers EXCEPT ![w].pc = "documentFrequency"]
    /\ UNCHANGED <<invertedTermDocIndex, categoryIndex, documentCount, documentFrequencies,
                   averageDocumentLength, termFrequencies, now, listings, loaderPc,
                   lastTimestamp, newListings, wakeAt, audit, callVars>>

\* line 221, self.documentFrequencies[term] += 1: the item is loaded (the defaultdict
\* gains the key) ...
LoadDocumentFrequency(w) ==
    /\ w \in 1..Len(workers)
    /\ workers[w].pc = "documentFrequency"
    /\ LET term == workers[w].row[workers[w].k].k
       IN  /\ documentFrequencies' = Touch(documentFrequencies, term, 0)
           /\ workers' = [workers EXCEPT ![w].loaded = DGet(documentFrequencies, term, 0),
                                         ![w].pc = "storeDocumentFrequency"]
    /\ UNCHANGED <<invertedTermDocIndex, categoryIndex, documentCount,
                   averageDocumentLength, corpusLength, termFrequencies, now, listings,
                   loaderPc, lastTimestamp, newListings, wakeAt, audit, callVars>>

\* ... and stored
StoreDocumentFrequency(w) ==
    /\ w \in 1..Len(workers)
    /\ workers[w].pc = "storeDocumentFrequency"
    /\ documentFrequencies' = DSet(documentFrequencies, workers[w].row[workers[w].k].k,
                                   workers[w].loaded + 1)
    /\ workers' = [workers EXCEPT ![w].pc = "posting"]
    /\ UNCHANGED <<invertedTermDocIndex, categoryIndex, documentCount,
                   averageDocumentLength, corpusLength, termFrequencies, now, listings,
                   loaderPc, lastTimestamp, newListings, wakeAt, audit, callVars>>

\* line 222, then the next term or the end of the loop
AppendTermPosting(w) ==
    /\ w \in 1..Len(workers)
    /\ workers[w].pc = "posting"
    /\ LET item == workers[w].row[workers[w].k]
       IN  invertedTermDocIndex' =
               AppendPosting(invertedTermDocIndex, item.k, workers[w].category,
                             workers[w].subCategory, <<workers[w].id, item.v>>)
    /\ workers' = [workers EXCEPT
                      ![w].k  = @ + 1,
                      ![w].pc = IF workers[w].k < Len(workers[w].row)
                                THEN "documentFrequency" ELSE "categoryIndex"]
    /\ UNCHANGED <<categoryIndex, documentCount, documentFrequencies,
                   averageDocumentLength, corpusLength, termFrequencies, now, listings,
                   loaderPc, lastTimestamp, newListings, wakeAt, audit, callVars>>

\* lines 224-225; the call returns
FinishProcessing(w) ==
    /\ w \in 1..Len(workers)
    /\ workers[w].pc = "categoryIndex"
    /\ LET finished == FinishDocument(Engine, workers[w].id, workers[w].category,
                                      workers[w].subCategory, workers[w].row)
       IN  /\ categoryIndex' = finished.categoryIndex
           /\ termFrequencies' = finished.termFrequencies
    /\ workers' = [workers EXCEPT ![w].pc = "done"]
    /\ audit' = [audit EXCEPT !.processed = @ \cup {workers[w].id}]
    /\ UNCHANGED <<invertedTermDocIndex, documentCount, documentFrequencies,
                   averageDocumentLength, corpusLength, now, listings, loaderPc,
                   lastTimestamp, newListings, wakeAt, callVars>>

\* lines 198-201: every future has its result, the batch is counted
CountDocuments ==
    /\ loaderPc = "result"
    /\ \A w \in 1..Len(workers) : workers[w].pc = "done"
    /\ documentCount' = documentCount + Len(newListings)
    /\ audit' = [audit EXCEPT !.counted = @ \cup {newListings[i].id : i \in 1..Len(newListings)}]
    /\ workers' = <<>>
    /\ loaderPc' = "average"
    /\ UNCHANGED <<invertedTermDocIndex, categoryIndex, documentFrequencies,
                   averageDocumentLength, corpusLength, termFrequencies, now, listings,
                   lastTimestamp, newListings, wakeAt, callVars>>

\* line 202
StoreAverage ==
    /\ loaderPc = "average"
    /\ averageDocumentLength' = <<corpusLength, documentCount>>
    /\ loaderPc' = "checkpoint"
    /\ audit' = [audit EXCEPT !.averaged = audit.counted]
    /\ UNCHANGED <<invertedTermDocIndex, categoryIndex, documentCount, documentFrequencies,
                   corpusLength, termFrequencies, now, listings, lastTimestamp, newListings,
                   wakeAt, workers, callVars>>

\* time.sleep(5)
SleepSeconds == 5

\* lines 205-206: the checkpoint is taken and the thread goes to sleep
Checkpoint ==
    /\ loaderPc = "checkpoint"
    /\ lastTimestamp' = now
    /\ wakeAt' = now + SleepSeconds
    /\ loaderPc' = "sleep"
    /\ UNCHANGED <<engineVars, now, listings, newListings, workers, audit, callVars>>

\* time.sleep returns
Wake ==
    /\ loaderPc = "sleep"
    /\ now >= wakeAt
    /\ loaderPc' = "fetch"
    /\ UNCHANGED <<engineVars, now, listings, lastTimestamp, newListings, wakeAt, workers,
                   audit, callVars>>

(***************************************************************************)
(* The environment of the loader                                           *)
(***************************************************************************)
\* time passes, up to the limit
Pass(seconds, limit) ==
    /\ now + seconds <= limit
    /\ now' = now + seconds
    /\ UNCHANGED <<engineVars, listings, loaderVars, audit, callVars>>

\* a second passes
Tick == Pass(1, MaxTime)

\* DataRepository.createListing: addedAt = int(time.time()), then the INSERT
createListing(id) ==
    /\ \A i \in 1..Len(listings) : listings[i].id # id
    /\ listings' = Append(listings, ListingRow(id, Submissions[id], now))
    /\ UNCHANGED <<engineVars, now, loaderVars, audit, callVars>>

\* SQLiteAdapter.__init__: running = True, an empty Queue, connection = None, and the
\* thread of _processQueue started
NewAdapter ==
    [running    |-> TRUE,
     queue      |-> <<>>,
     unfinished |-> 0,
     worker     |-> "connect",
     task       |-> 0,
     connection |-> "none"]

\* no SKU and no order in the tables
NoTables == [skus |-> <<>>, orders |-> <<>>]

NoCall == [op |-> "none"]

\* the process has started: the index is empty and the loader thread is about to fetch
Init ==
    /\ EngineIs(EmptyEngine)
    /\ now = 1
    /\ listings = <<>>
    /\ loaderPc = "fetch"
    /\ lastTimestamp = 0
    /\ newListings = <<>>
    /\ wakeAt = 0
    /\ workers = <<>>
    /\ audit = [fetched |-> {}, processed |-> {}, counted |-> {}, averaged |-> {}]
    /\ calls = 0
    /\ lastCall = NoCall
    /\ queryScores = <<>>
    /\ cache = <<>>
    /\ log = <<>>
    /\ args = <<>>
    /\ adapter = NewAdapter
    /\ tables = NoTables
    /\ requests = <<>>

Next ==
    \/ Fetch
    \/ \E w \in 1..Len(workers) : LoadCorpusLength(w)
    \/ \E w \in 1..Len(workers) : StoreCorpusLength(w)
    \/ \E w \in 1..Len(workers) : LoadDocumentFrequency(w)
    \/ \E w \in 1..Len(workers) : StoreDocumentFrequency(w)
    \/ \E w \in 1..Len(workers) : AppendTermPosting(w)
    \/ \E w \in 1..Len(workers) : FinishProcessing(w)
    \/ CountDocuments
    \/ StoreAverage
    \/ Checkpoint
    \/ Wake
    \/ Tick
    \/ \E id \in LoaderSubmissions : createListing(id)

Spec == Init /\ [][Next]_vars

(***************************************************************************)
(* Calls of queryDocuments                                                 *)
(***************************************************************************)
\* queryDocuments(query, category, subCategory) is called on the instance as it is now
QueryDocumentsCall(query, category, subCategory) ==
    \E answer \in {queryDocuments(Engine, query, category, subCategory)} :
        /\ EngineBecomes(answer.engine)
        /\ calls' = calls + 1
        /\ lastCall' = [op          |-> "queryDocuments",
                        query       |-> query,
                        category    |-> category,
                        subCategory |-> subCategory,
                        error       |-> answer.error,
                        meta        |-> answer.meta,
                        scores      |-> answer.scores,
                        read        |-> answer.read,
                        processed   |-> audit.processed,
                        counted     |-> audit.counted,
                        averaged    |-> audit.averaged]
        /\ UNCHANGED <<now, listings, loaderVars, audit, queryScores, cache, log, args, adapter, tables, requests>>

(***************************************************************************)
(* Runs in which the workers do not overlap: the listings are in the table *)
(* when the process starts, the first cycle of the loader indexes them one *)
(* processDocument call after the other, and queryDocuments is called      *)
(* while the loader sleeps.                                                *)
(***************************************************************************)
\* the listings beyond Submissions are all alike
SubmissionOf(id) ==
    IF id \in DOMAIN Submissions THEN Submissions[id]
    ELSE [title |-> <<"W", "i", "d", "g", "e", "t">>,
          description |-> <<"t", "o", "o", "l">>,
          subCategory |-> "hand-tools", category |-> "tools"]

\* the process starts with the listings ids in the table, all added in second 1
StartWithRows(rows) ==
    /\ EngineIs(EmptyEngine)
    /\ now = 1
    /\ listings = rows
    /\ loaderPc = "fetch"
    /\ lastTimestamp = 0
    /\ newListings = <<>>
    /\ wakeAt = 0
    /\ workers = <<>>
    /\ audit = [fetched |-> {}, processed |-> {}, counted |-> {}, averaged |-> {}]
    /\ calls = 0
    /\ lastCall = NoCall
    /\ queryScores = <<>>
    /\ cache = <<>>
    /\ log = <<>>
    /\ args = <<>>
    /\ adapter = NewAdapter
    /\ tables = NoTables
    /\ requests = <<>>

StartWith(ids) ==
    StartWithRows([i \in 1..Len(ids) |-> ListingRow(ids[i], SubmissionOf(ids[i]), 1)])

\* the next submitted processDocument call runs from its first line to its last while
\* no other thread runs
ProcessWhole(w) ==
    /\ w \in 1..Len(workers)
    /\ workers[w].pc = "corpusLength"
    /\ \A v \in 1..(w - 1) : workers[v].pc = "done"
    /\ EngineBecomes(processDocument(Engine, newListings[w].description, newListings[w].id,
                                     newListings[w].title, newListings[w].category,
                                     newListings[w].subCategory))
    /\ workers' = [workers EXCEPT ![w].pc = "done", ![w].k = Len(workers[w].row) + 1]
    /\ audit' = [audit EXCEPT !.processed = @ \cup {workers[w].id}]
    /\ UNCHANGED <<now, listings, loaderPc, lastTimestamp, newListings, wakeAt, callVars>>

\* the first cycle of the loader, its workers one after the other
LoadInTurn ==
    \/ Fetch
    \/ \E w \in 1..Len(workers) : ProcessWhole(w)
    \/ CountDocuments
    \/ StoreAverage
    \/ Checkpoint

\* the sequences of at most n different elements of S
DistinctSeqs(S, n) ==
    {seq \in UNION {[1..m -> S] : m \in 0..n} :
        \A i, j \in 1..Len(seq) : i # j => seq[i] # seq[j]}

(***************************************************************************)
(* QuerySpec: queryDocuments on an index at rest                           *)
(***************************************************************************)
\* listings in the index
MaxCorpus == 2

\* calls made on one index
MaxCalls == 1

QueryTexts ==
    {None,
     Some(<<>>),
     Some(<<"w", "i", "d", "g", "e", "t">>),
     Some(<<"W", "i", "d", "g", "e", "t">>),
     Some(<<"w", "i", "d", "g", "e", "t", "s">>),
     Some(<<"w", "i", "g", "e", "t">>),
     Some(<<"w", "u", "d", "g", "e", "t">>),
     Some(<<"W", "u", "d", "g", "e", "t">>),
     Some(<<"r", "e", "d", " ", "w", "u", "d", "g", "e", "t">>)}

CategoryFilters == {None, Some("tools"), Some("toys")}

SubCategoryFilters == {None, Some("hand-tools"), Some("power-tools"), Some("games")}

QueryInit == \E ids \in DistinctSeqs(DOMAIN Submissions, MaxCorpus) : StartWith(ids)

QueryAtRest ==
    /\ loaderPc = "sleep"
    /\ calls < MaxCalls
    /\ \E query \in QueryTexts, category \in CategoryFilters, subCategory \in SubCategoryFilters :
          QueryDocumentsCall(query, category, subCategory)

QueryNext == LoadInTurn \/ QueryAtRest

QuerySpec == QueryInit /\ [][QueryNext]_vars

(***************************************************************************)
(* Properties of queryDocuments                                            *)
(***************************************************************************)
IdSet(scores) == {scores[i][1] : i \in 1..Len(scores)}

\* the row of the listings table with this id
RowOf(id) == listings[CHOOSE i \in 1..Len(listings) : listings[i].id = id]

\* the indexed listings a category / subcategory filter asks for
InScope(category, subCategory) ==
    {listings[i].id : i \in {j \in 1..Len(listings) :
        /\ listings[j].id \in audit.processed
        /\ category # None => listings[j].category = category[1]
        /\ subCategory # None => listings[j].subCategory = subCategory[1]}}

DF(term) == DGet(documentFrequencies, term, 0)

\* C1: every document returned by queryDocuments under a category and/or subcategory
\* filter (a subcategory without a category included) was indexed under exactly that
\* category and/or subcategory.
FilterMatchesExactly ==
    (lastCall.op = "queryDocuments" /\ lastCall.error = "none") =>
        \A id \in IdSet(lastCall.scores) :
            /\ lastCall.category # None => RowOf(id).category = lastCall.category[1]
            /\ lastCall.subCategory # None => RowOf(id).subCategory = lastCall.subCategory[1]

\* C5: queryDocuments("", category, subCategory) raises nothing and returns the document
\* ids that queryDocuments(None, category, subCategory) returns.
EmptyTextIsNoQuery ==
    (lastCall.op = "queryDocuments" /\ lastCall.query = Some(<<>>)) =>
        /\ lastCall.error = "none"
        /\ IdSet(lastCall.scores)
             = IdSet(queryDocuments(Engine, None, lastCall.category, lastCall.subCategory).scores)

\* C6: without query text queryDocuments returns every indexed document of the requested
\* category / subcategory scope once, each with score 1.
FilterOnlyScoresOne ==
    (lastCall.op = "queryDocuments" /\ lastCall.query = None) =>
        /\ lastCall.error = "none"
        /\ IdSet(lastCall.scores) = InScope(lastCall.category, lastCall.subCategory)
        /\ \A i, j \in 1..Len(lastCall.scores) :
              i # j => lastCall.scores[i][1] # lastCall.scores[j][1]
        /\ \A i \in 1..Len(lastCall.scores) : lastCall.scores[i][2] = One

\* the typo neighbours of a word: one letter replaced by a letter the table gives for it
TypoNeighbours(word) ==
    {[word EXCEPT ![i] = COMMON_TYPO_LETTERS[word[i]][n]] :
        <<i, n>> \in {<<i, n>> \in (1..Len(word)) \X (1..7) :
                        /\ word[i] \in DOMAIN COMMON_TYPO_LETTERS
                        /\ n <= Len(COMMON_TYPO_LETTERS[word[i]])}}

\* the suggestions the query text allows: a word replaced, at its position, by a typo
\* neighbour found in more documents than the word itself
BetterSpellings(text) ==
    LET words == Split(text, " ")
    IN  {Join([words EXCEPT ![i] = variant], " ") :
            <<i, variant>> \in {<<i, variant>> \in
                                   (1..Len(words)) \X UNION {TypoNeighbours(Lower(words[k])) :
                                                                k \in 1..Len(words)} :
                                  /\ variant \in TypoNeighbours(Lower(words[i]))
                                  /\ DF(variant) > DF(Lower(words[i]))}}

\* C9: for a query text in any letter case, queryDocuments raises nothing and returns a
\* suggestedQuery exactly when a typo neighbour of a query word is in more documents than
\* the word; the suggestion is the query with that word replaced by the neighbour.
SuggestionIffBetterNeighbour ==
    (lastCall.op = "queryDocuments" /\ lastCall.query # None) =>
        /\ lastCall.error = "none"
        /\ lastCall.meta # None <=> BetterSpellings(lastCall.query[1]) # {}
        /\ lastCall.meta # None => lastCall.meta[1] \in BetterSpellings(lastCall.query[1])

(***************************************************************************)
(* TypoSpec: a misspelt listing next to many listings titled "Widget"      *)
(***************************************************************************)
\* listings titled "Widget"
MaxWidgetListings == 50

Wiget == <<"w", "i", "g", "e", "t">>

Wudget == <<"w", "u", "d", "g", "e", "t">>

Widget == <<"w", "i", "d", "g", "e", "t">>

\* submission 3 is titled "wiget", submission 4 "wudget"; the ids after the submissions
\* are the listings titled "Widget"
TypoInit ==
    \E misspelt \in {3, 4}, n \in 1..MaxWidgetListings :
        StartWith(<<misspelt>> \o [i \in 1..n |-> Len(Submissions) + i])

TypoQuery ==
    /\ loaderPc = "sleep"
    /\ calls < MaxCalls
    /\ \E query \in {Some(Wiget), Some(Wudget)} : QueryDocumentsCall(query, None, None)

TypoNext == LoadInTurn \/ TypoQuery

TypoSpec == TypoInit /\ [][TypoNext]_vars

\* C10 as stated: with "wiget" in one document and "widget" in fifty, querying "wiget"
\* returns suggestedQuery = "widget".
WigetSuggestsWidget ==
    (/\ lastCall.op = "queryDocuments"
     /\ lastCall.query = Some(Wiget)
     /\ DF(Wiget) = 1
     /\ DF(Widget) = 50) => lastCall.meta = Some(Widget)

\* C10: with a misspelling in one document and "widget" in more (fifty, say), querying
\* the misspelling "wudget", which has one letter replaced by a neighbour, returns
\* suggestedQuery = "widget"; querying "wiget", which lacks a letter, returns none.
SubstitutionSuggestsWidget ==
    (lastCall.op = "queryDocuments" /\ DF(Widget) > 1) =>
        /\ lastCall.error = "none"
        /\ (lastCall.query = Some(Wudget) /\ DF(Wudget) = 1) => lastCall.meta = Some(Widget)
        /\ (lastCall.query = Some(Wiget) /\ DF(Wiget) = 1) => lastCall.meta = None

\* "wudget" is in one document, "widget" in fifty, and "wudget" was queried
WudgetQueriedAmongFifty ==
    /\ lastCall.op = "queryDocuments"
    /\ lastCall.query = Some(Wudget)
    /\ DF(Wudget) = 1
    /\ DF(Widget) = 50
    /\ lastCall.meta = Some(Widget)

(***************************************************************************)
(* ConcurrentSpec: queryDocuments called while the first cycle of the      *)
(* loader runs, its processDocument calls interleaved line by line         *)
(***************************************************************************)
ConcurrentQueries == {None, Some(<<"t", "o", "y">>)}

ConcurrentInit == \E ids \in DistinctSeqs(LoaderSubmissions, MaxCorpus) : StartWith(ids)

\* a request thread calls queryDocuments, at any point of the loader's cycle
ConcurrentQuery ==
    /\ calls < MaxCalls
    /\ \E query \in ConcurrentQueries : QueryDocumentsCall(query, None, None)

ConcurrentNext ==
    \/ Fetch
    \/ \E w \in 1..Len(workers) : LoadCorpusLength(w)
    \/ \E w \in 1..Len(workers) : StoreCorpusLength(w)
    \/ \E w \in 1..Len(workers) : LoadDocumentFrequency(w)
    \/ \E w \in 1..Len(workers) : StoreDocumentFrequency(w)
    \/ \E w \in 1..Len(workers) : AppendTermPosting(w)
    \/ \E w \in 1..Len(workers) : FinishProcessing(w)
    \/ CountDocuments
    \/ StoreAverage
    \/ Checkpoint
    \/ ConcurrentQuery

ConcurrentSpec == ConcurrentInit /\ [][ConcurrentNext]_vars

\* C2: a query never reads a posting of a document whose termFrequencies entry,
\* documentCount increment or averageDocumentLength update is still to come: the
\* documents whose postings a call of queryDocuments read had all been processed, counted
\* and averaged when the call was made.
QuerySeesWholeBatches ==
    lastCall.op = "queryDocuments" =>
        lastCall.read \subseteq (lastCall.processed \cap lastCall.counted \cap lastCall.averaged)

\* C3: no listing is missed by the loader.  getListingsSince returns the rows with
\* addedAt > lastTimestamp and lastTimestamp never decreases, so a listing that is to be
\* returned by a later cycle must, whenever a cycle has ended, either have been fetched
\* already or have been added after the checkpoint.
NoListingSkipped ==
    loaderPc \in {"sleep", "fetch"} =>
        \A i \in 1..Len(listings) :
            listings[i].addedAt <= lastTimestamp => listings[i].id \in audit.fetched

(***************************************************************************)
(* SortSpec: sortScores applied to a dict of scores                        *)
(***************************************************************************)
\* entries of the dict
MaxScores == 4

ScoreValues == {0, 1, 2}

\* the dicts of at most MaxScores entries, in every insertion order
ScoreDicts ==
    {d \in UNION {[1..m -> [k : 1..MaxScores, v : ScoreValues]] : m \in 0..MaxScores} :
        \A i, j \in 1..Len(d) : i # j => d[i].k # d[j].k}

\* an instance with nothing to index, its loader asleep after the first fetch
SortInit ==
    /\ EngineIs(EmptyEngine)
    /\ now = 1
    /\ listings = <<>>
    /\ loaderPc = "sleep"
    /\ lastTimestamp = 1
    /\ newListings = <<>>
    /\ wakeAt = 1 + SleepSeconds
    /\ workers = <<>>
    /\ audit = [fetched |-> {}, processed |-> {}, counted |-> {}, averaged |-> {}]
    /\ calls = 0
    /\ lastCall = NoCall
    /\ queryScores \in ScoreDicts
    /\ cache = <<>>
    /\ log = <<>>
    /\ args = <<>>
    /\ adapter = NewAdapter
    /\ tables = NoTables
    /\ requests = <<>>

SortScoresCall ==
    /\ calls < MaxCalls
    /\ calls' = calls + 1
    /\ lastCall' = [op          |-> "sortScores",
                    queryScores |-> queryScores,
                    sorted      |-> sortScores(queryScores)]
    /\ UNCHANGED <<engineVars, now, listings, loaderVars, audit, queryScores, cache, log, args, adapter, tables, requests>>

SortNext == SortScoresCall

SortSpec == SortInit /\ [][SortNext]_vars

\* where the pair of document id sits in a list of pairs
PositionOf(pairs, id) == CHOOSE i \in 1..Len(pairs) : pairs[i][1] = id

\* C7: sortScores returns a permutation of the (documentID, score) pairs it is given,
\* in order of non-increasing score, pairs of equal score in their insertion order.
SortScoresStableDescending ==
    lastCall.op = "sortScores" =>
        LET given  == lastCall.queryScores
            sorted == lastCall.sorted
        IN  /\ Len(sorted) = Len(given)
            /\ \A i \in 1..Len(given) :
                  \E j \in 1..Len(sorted) : sorted[j] = <<given[i].k, given[i].v>>
            /\ \A i, j \in 1..Len(sorted) : i < j => sorted[i][2] >= sorted[j][2]
            /\ \A i, j \in 1..Len(given) :
                  (i < j /\ given[i].v = given[j].v) =>
                      PositionOf(sorted, given[i].k) < PositionOf(sorted, given[j].k)

\* sortScores was given pairs out of order, two of them of equal score
TiedScoresSorted ==
    /\ lastCall.op = "sortScores"
    /\ Len(lastCall.queryScores) >= 3
    /\ \E i, j \in 1..Len(lastCall.queryScores) :
          i < j /\ lastCall.queryScores[i].v = lastCall.queryScores[j].v
    /\ \E i, j \in 1..Len(lastCall.queryScores) :
          i < j /\ lastCall.queryScores[i].v < lastCall.queryScores[j].v
    /\ Len(lastCall.sorted) = Len(lastCall.queryScores)

(***************************************************************************)
(* Hydration: DataRepository.idsToListings                                 *)
(***************************************************************************)
\* Queries.Listings.getListingsByIDs: WHERE Li.id IN (...) AND Li.public = 1 AND
\* totalStock > 0 AND length(skus) > 0 (a listing with stock has a SKU); the rows come
\* in the order of the table
getListingsByIDs(table, listingIDs) ==
    SelectSeq(table, LAMBDA row : /\ \E i \in 1..Len(listingIDs) : listingIDs[i] = row.id
                                  /\ row.public
                                  /\ row.totalStock > 0)

\* DataRepository.formatListingRows: dict(listing) of every row, [] when there is none;
\* the columns it decodes from JSON (ownerUser, images, skuOptions, skus) are not kept
formatListingRows(rows) ==
    IF Len(rows) = 0 THEN <<>>
    ELSE [i \in 1..Len(rows) |->
             [id          |-> rows[i].id,
              title       |-> rows[i].title,
              description |-> rows[i].description,
              addedAt     |-> rows[i].addedAt,
              public      |-> rows[i].public,
              category    |-> rows[i].category,
              subCategory |-> rows[i].subCategory,
              basePrice   |-> rows[i].basePrice,
              totalStock  |-> rows[i].totalStock,
              rating      |-> rows[i].rating,
              views       |-> rows[i].views]]

idsToListings(table, listingIDs) == formatListingRows(getListingsByIDs(table, listingIDs))

(***************************************************************************)
(* ListingSearch.sortListings and ListingSearch.query                      *)
(***************************************************************************)
\* Python's list[start:stop]: a negative index counts from the end, both are clipped
ClipIndex(length, i) ==
    IF i < 0 THEN (IF length + i < 0 THEN 0 ELSE length + i)
    ELSE (IF i > length THEN length ELSE i)

\* list[start:stop + 1]: the element at stop is taken too
SliceThroughStop(list, start, stop) ==
    IF ClipIndex(Len(list), start) >= ClipIndex(Len(list), stop + 1) THEN <<>>
    ELSE SubSeq(list, ClipIndex(Len(list), start) + 1, ClipIndex(Len(list), stop + 1))

Slice(list, start, stop) ==
    IF ClipIndex(Len(list), start) >= ClipIndex(Len(list), stop) THEN <<>>
    ELSE SubSeq(list, ClipIndex(Len(list), start) + 1, ClipIndex(Len(list), stop))

\* if sort: sort = sort.lower()
SortName(sort) == IF sort = None \/ sort = Some(<<>>) THEN sort ELSE Some(Lower(sort[1]))

\* the if / elif chain of sortListings
SortedBy(rows, name, reverse, currentTime) ==
    CASE name = Some(<<"p", "r", "i", "c", "e">>) ->
             quickSort(rows, [name |-> "price"], reverse)
      [] name = Some(<<"r", "a", "t", "i", "n", "g">>) ->
             quickSort(rows, [name |-> "rating"], reverse)
      [] name = Some(<<"v", "i", "e", "w", "s">>) ->
             quickSort(rows, [name |-> "views"], reverse)
      [] name = Some(<<"t", "r", "e", "n", "d", "i", "n", "g">>) ->
             quickSort(rows, [name |-> "trending", currentTime |-> currentTime], reverse)
      [] OTHER -> rows

\* sortListings(rows, sort, order), with currentTime = int(time.time());
\* reverse = order == 'des'
sortListings(rows, sort, order, currentTime) ==
    SortedBy(rows, SortName(sort), order = Some("des"), currentTime)

\* [score[0] for score in scores]
RankedIds(scores) == [i \in 1..Len(scores) |-> scores[i][1]]

RECURSIVE PreSort(_, _)
\* the listings as idsToListings returned them
PreSortAsFound(scores, rows) == rows

\* lines 427-433: for every score in ranking order, the listing of that id if there is one
PreSort(scores, rows) ==
    IF Len(scores) = 0 THEN <<>>
    ELSE (IF \E i \in 1..Len(rows) : rows[i].id = Head(scores)[1]
          THEN <<rows[CHOOSE i \in 1..Len(rows) :
                             /\ rows[i].id = Head(scores)[1]
                             /\ \A j \in 1..(i - 1) : rows[j].id # Head(scores)[1]]>>
          ELSE <<>>) \o PreSort(Tail(scores), rows)

\* lines 438-442
Paginate(meta, rows, elapsedTime, offset, limit) ==
    [queryData |-> [total          |-> Len(rows),
                    elapsed        |-> elapsedTime,
                    suggestedQuery |-> meta],
     listings  |-> Slice(rows, offset, offset + limit)]

\* lines 424-442: rows is what idsToListings returned
Hydrated(answer, rows, currentTime, elapsedTime, offset, limit, sort, order) ==
    [error     |-> "none",
     engine    |-> answer.engine,
     requested |-> Some(RankedIds(answer.scores)),
     value     |-> IF Len(rows) = 0
                   THEN [queryData |-> [total |-> 0, elapsed |-> 0], listings |-> <<>>]
                   ELSE Paginate(answer.meta,
                                 sortListings(PreSort(answer.scores, rows),
                                              sort, order, currentTime),
                                 elapsedTime, offset, limit)]

\* lines 418-442: answer is what queryDocuments returned or raised
Scored(answer, table, currentTime, elapsedTime, offset, limit, sort, order) ==
    IF answer.error # "none"
    THEN [error |-> answer.error, engine |-> answer.engine, requested |-> None,
          value |-> None]
    ELSE Hydrated(answer, idsToListings(table, RankedIds(answer.scores)),
                  currentTime, elapsedTime, offset, limit, sort, order)

\* the body of query(conn, data, query, offset, limit, category, sort, order,
\* subCategory): [error, engine, requested, value], where engine is the instance after
\* the call, requested the ids handed to idsToListings (None when it was not called) and
\* value the pair returned.  table is the rows table data reads, elapsedTime the time
\* timeFunction measures for queryDocuments
query(engine, table, currentTime, elapsedTime, text, offset, limit, category, sort, order, subCategory) ==
    Scored(queryDocuments(engine, text, category, subCategory), table, currentTime,
           elapsedTime, offset, limit, sort, order)

(***************************************************************************)
(* @cached(TTLCache(maxsize=1024, ttl=20)) around ListingSearch.query      *)
(***************************************************************************)
ttl == 20

maxsize == 1024

\* TTLCache.__getitem__ with no regard for link.expires
CacheGetForever(store, key, time) ==
    IF DHas(store, key) THEN Some(DGet(store, key, None).value) ELSE None

\* TTLCache.__getitem__: the value stored for the key while timer() < link.expires,
\* KeyError (None) otherwise
CacheGet(store, key, time) ==
    IF DHas(store, key) /\ time < DGet(store, key, None).expires
    THEN Some(DGet(store, key, None).value)
    ELSE None

\* TTLCache.expire: the entries whose time has come are removed
CacheExpire(store, time) == SelectSeq(store, LAMBDA entry : time < entry.v.expires)

\* Cache.__setitem__: while the cache is full, popitem removes the oldest entry
CacheRoom(store) == IF Len(store) >= maxsize THEN Tail(store) ELSE store

\* TTLCache.__setitem__: cache[key] = value with expires = timer() + ttl
CacheSet(store, key, value, time) ==
    Append(CacheRoom(DPop(CacheExpire(store, time), key)),
           [k |-> key, v |-> [value |-> value, expires |-> time + ttl]])

\* cachetools.keys.hashkey(self, conn, data, query, ...): the arguments of the call
QueryKey(conn, data, text, offset, limit, category, sort, order, subCategory) ==
    [conn |-> conn, data |-> data, query |-> text, offset |-> offset, limit |-> limit,
     category |-> category, sort |-> sort, order |-> order, subCategory |-> subCategory]

\* the wrapper of cached finds the key in the cache: the body is not run
CacheHit(key, value) ==
    /\ lastCall' = [op |-> "query", key |-> key, at |-> now, executed |-> FALSE,
                    error |-> "none", requested |-> None, value |-> value,
                    table |-> listings]
    /\ log' = Append(log, [key |-> key, at |-> now, executed |-> FALSE, hydrated |-> FALSE,
                           error |-> "none", value |-> value])
    /\ UNCHANGED <<engineVars, cache>>

\* the wrapper does not find it: the body runs, and what it returns is stored
CacheMiss(key, result) ==
    /\ EngineBecomes(result.engine)
    /\ cache' = IF result.error = "none" THEN CacheSet(cache, key, result.value, now)
                ELSE cache
    /\ lastCall' = [op |-> "query", key |-> key, at |-> now, executed |-> TRUE,
                    error |-> result.error, requested |-> result.requested,
                    value |-> result.value, table |-> listings]
    /\ log' = Append(log, [key |-> key, at |-> now, executed |-> TRUE,
                           hydrated |-> result.requested # None,
                           error |-> result.error, value |-> result.value])

\* instances.listingsSearch.query(conn, data, query, offset, limit, category, sort, order,
\* subCategory) is called; queryDocuments takes elapsedTime
QueryCall(conn, data, text, offset, limit, category, sort, order, subCategory, elapsedTime) ==
    /\ calls' = calls + 1
    /\ \E key \in {QueryKey(conn, data, text, offset, limit, category, sort, order,
                            subCategory)} :
          \E cached \in {CacheGet(cache, key, now)} :
              IF cached # None
              THEN CacheHit(key, cached[1])
              ELSE \E result \in {query(Engine, listings, now, elapsedTime, text, offset,
                                        limit, category, sort, order, subCategory)} :
                       CacheMiss(key, result)
    /\ UNCHANGED <<now, listings, loaderVars, audit, queryScores, args, adapter, tables, requests>>

(***************************************************************************)
(* Listings on offer: rows with a SKU in stock and view events             *)
(***************************************************************************)
\* Queries.Listings.addSKU and registerEvent have given the listing a price, stock and
\* views: what listingBaseQuery shows as basePrice, totalStock and views
Offers ==
    [id \in 1..Len(Submissions) |->
        CASE id = 1 -> [basePrice |-> 3, totalStock |-> 1, views |-> 0]
          [] id = 2 -> [basePrice |-> 1, totalStock |-> 1, views |-> 2]
          [] id = 3 -> [basePrice |-> 2, totalStock |-> 1, views |-> 1]
          [] OTHER  -> [basePrice |-> 2, totalStock |-> 1, views |-> 3]]

Offered(id) ==
    [ListingRow(id, SubmissionOf(id), 1) EXCEPT !.basePrice  = Offers[id].basePrice,
                                                !.totalStock = Offers[id].totalStock,
                                                !.views      = Offers[id].views]

\* Queries.Listings.updateListing: the owner publishes or hides the listing
updateListing(id, public) ==
    /\ \E i \in 1..Len(listings) : listings[i].id = id /\ listings[i].public # public
    /\ listings' = [i \in 1..Len(listings) |->
                       IF listings[i].id = id THEN [listings[i] EXCEPT !.public = public]
                       ELSE listings[i]]
    /\ UNCHANGED <<engineVars, now, loaderVars, audit, callVars>>

\* Queries.Listings.updateSKUStock on the listing's SKU
updateSKUStock(id, stock) ==
    /\ \E i \in 1..Len(listings) : listings[i].id = id /\ listings[i].totalStock # stock
    /\ listings' = [i \in 1..Len(listings) |->
                       IF listings[i].id = id THEN [listings[i] EXCEPT !.totalStock = stock]
                       ELSE listings[i]]
    /\ UNCHANGED <<engineVars, now, loaderVars, audit, callVars>>

(***************************************************************************)
(* SearchSpec: query on an index at rest, while owners hide listings and   *)
(* stock runs out                                                          *)
(***************************************************************************)
\* listings in the table
MaxListed == 3

SearchTexts == {None, Some(<<"w", "i", "d", "g", "e", "t">>)}

Offsets == {0, 1}

Limits == {1, 10}

Sorts == {None, Some(<<"P", "r", "i", "c", "e">>)}

Orders == {Some("des")}

SearchInit ==
    \E ids \in DistinctSeqs(1..3, MaxListed) :
        StartWithRows([i \in 1..Len(ids) |-> Offered(ids[i])])

\* the listings change after they were indexed and before they are searched
SearchUpdate ==
    /\ loaderPc = "sleep"
    /\ log = <<>>
    /\ \E i \in 1..Len(listings) :
          \/ \E public \in BOOLEAN : updateListing(listings[i].id, public)
          \/ \E stock \in {0, 1} : updateSKUStock(listings[i].id, stock)

SearchQuery ==
    /\ loaderPc = "sleep"
    /\ calls < MaxCalls
    /\ \E text \in SearchTexts, offset \in Offsets, limit \in Limits, sort \in Sorts,
          order \in Orders :
          QueryCall(1, 1, text, offset, limit, None, sort, order, None, 1)

SearchNext == LoadInTurn \/ SearchUpdate \/ SearchQuery

SearchSpec == SearchInit /\ [][SearchNext]_vars

\* the listing of this id is in the table, public and in stock
Hydratable(table, id) ==
    \E i \in 1..Len(table) : table[i].id = id /\ table[i].public /\ table[i].totalStock > 0

\* the ranked ids that hydrate, in ranking order
Kept(call) == SelectSeq(call.requested[1], LAMBDA id : Hydratable(call.table, id))

\* the ids of the page returned
PageIds(call) == [i \in 1..Len(call.value.listings) |-> call.value.listings[i].id]

\* C8: when idsToListings returns no listing for some ranked ids, query drops exactly
\* those: no error reaches the caller, total is the number of ranked listings that
\* hydrate, the page holds only such listings, each at most once, as many as offset and
\* limit cut out of them, and without a sort it is that cut of them in ranking order.
MissingListingsDropped ==
    (lastCall.op = "query" /\ lastCall.executed /\ lastCall.requested # None) =>
        /\ lastCall.error = "none"
        /\ lastCall.value.queryData.total = Len(Kept(lastCall))
        /\ \A i, j \in 1..Len(PageIds(lastCall)) :
              i # j => PageIds(lastCall)[i] # PageIds(lastCall)[j]
        /\ \A i \in 1..Len(PageIds(lastCall)) :
              \E j \in 1..Len(Kept(lastCall)) : PageIds(lastCall)[i] = Kept(lastCall)[j]
        /\ Len(PageIds(lastCall))
             = Len(Slice(Kept(lastCall), lastCall.key.offset,
                         lastCall.key.offset + lastCall.key.limit))
        /\ lastCall.key.sort = None =>
              PageIds(lastCall) = Slice(Kept(lastCall), lastCall.key.offset,
                                        lastCall.key.offset + lastCall.key.limit)

\* a ranked listing had been hidden or had run out of stock, two others were returned
RankedListingMissing ==
    /\ lastCall.op = "query"
    /\ lastCall.executed
    /\ lastCall.requested # None
    /\ Len(lastCall.requested[1]) = 3
    /\ Len(Kept(lastCall)) = 2
    /\ lastCall.key.sort = None
    /\ Len(lastCall.value.listings) = 2
    /\ lastCall.table[1].id = lastCall.value.listings[2].id

(***************************************************************************)
(* CacheSpec: repeated calls of query as time passes                       *)
(***************************************************************************)
\* seconds between two looks at the clock
ClockStep == 10

\* the last second looked at
MaxClock == 31

\* calls of query
MaxCachedCalls == 3

CachedTexts ==
    {None, Some(<<"w", "i", "d", "g", "e", "t">>), Some(<<"W", "u", "d", "g", "e", "t">>)}

\* what timeFunction may measure
ElapsedTimes == {1, 2}

CacheInit == StartWithRows(<<Offered(1), Offered(2)>>)

CachePass == loaderPc = "sleep" /\ Pass(ClockStep, MaxClock)

CachedQuery ==
    /\ loaderPc = "sleep"
    /\ calls < MaxCachedCalls
    /\ \E text \in CachedTexts, elapsedTime \in ElapsedTimes :
          QueryCall(1, 1, text, 0, 10, None, None, Some("desc"), None, elapsedTime)

CacheNext == LoadInTurn \/ CachePass \/ CachedQuery

CacheSpec == CacheInit /\ [][CacheNext]_vars

\* the last call before call n that ran the body for the same key and returned
LastStored(n) ==
    CHOOSE m \in 1..(n - 1) :
        /\ log[m].key = log[n].key /\ log[m].executed /\ log[m].error = "none"
        /\ \A k \in (m + 1)..(n - 1) :
              ~(log[k].key = log[n].key /\ log[k].executed /\ log[k].error = "none")

\* C4 as stated: a call runs scoring and hydration exactly when no call with identical
\* parameters was completed within the preceding TTL window.
RunsIffNoneCompletedInWindow ==
    \A n \in 1..Len(log) :
        log[n].executed <=>
            ~\E m \in 1..(n - 1) :
                /\ log[m].key = log[n].key
                /\ log[m].error = "none"
                /\ log[n].at - log[m].at < ttl

\* C4: a call runs the body of query (scoring, then hydration unless scoring raises)
\* exactly when no call with identical parameters ran the body and returned within the
\* preceding ttl seconds; a call that does not run it returns what that call returned and
\* hydrates nothing.
RunsIffNoneStoredInWindow ==
    \A n \in 1..Len(log) :
        /\ log[n].executed <=>
               ~\E m \in 1..(n - 1) :
                   /\ log[m].key = log[n].key
                   /\ log[m].executed
                   /\ log[m].error = "none"
                   /\ log[n].at < log[m].at + ttl
        /\ log[n].hydrated <=> (log[n].executed /\ log[n].error = "none")
        /\ ~log[n].executed =>
               /\ log[n].error = "none"
               /\ log[n].value = log[LastStored(n)].value

\* a call ran the body, an identical call within the window did not, and an identical
\* call after the window ran it again
HitThenExpiry ==
    /\ Len(log) = 3
    /\ log[1].key = log[2].key /\ log[2].key = log[3].key
    /\ log[1].executed /\ log[1].hydrated
    /\ ~log[2].executed /\ log[2].at > log[1].at /\ log[2].value = log[1].value
    /\ log[3].executed /\ log[3].hydrated /\ log[3].at - log[2].at < ttl

(***************************************************************************)
(* An instance with nothing to index: the loader fetched nothing in second *)
(* 1 and sleeps; a static method or helper is about to be called           *)
(***************************************************************************)
ServingAt(time, arguments, stored, threads) ==
    /\ EngineIs(EmptyEngine)
    /\ now = time
    /\ listings = <<>>
    /\ loaderPc = "sleep"
    /\ lastTimestamp = 1
    /\ newListings = <<>>
    /\ wakeAt = 1 + SleepSeconds
    /\ workers = <<>>
    /\ audit = [fetched |-> {}, processed |-> {}, counted |-> {}, averaged |-> {}]
    /\ calls = 0
    /\ lastCall = NoCall
    /\ queryScores = <<>>
    /\ cache = <<>>
    /\ log = <<>>
    /\ args = arguments
    /\ adapter = NewAdapter
    /\ tables = stored
    /\ requests = threads

\* no thread calls into the adapter and the tables of the shop are empty
RestingAt(time, arguments) == ServingAt(time, arguments, NoTables, <<>>)

(***************************************************************************)
(* SortListingsSpec: sortListings applied to lists of listings             *)
(***************************************************************************)
\* listings in the list
MaxSorted == 3

\* int(time.time()) when sortListings is called
SortTime == 5

\* the listings a list is made of, as formatListingRows gives them
SortPool ==
    <<[id |-> 1, basePrice |-> 3, rating |-> 0, views |-> 0, addedAt |-> 1],
      [id |-> 2, basePrice |-> 1, rating |-> 4, views |-> 2, addedAt |-> 1],
      [id |-> 3, basePrice |-> 2, rating |-> 4, views |-> 1, addedAt |-> 3],
      [id |-> 4, basePrice |-> 0, rating |-> 2, views |-> 0, addedAt |-> 3],
      [id |-> 5, basePrice |-> 1, rating |-> 0, views |-> 2, addedAt |-> 2]>>

Price == <<"p", "r", "i", "c", "e">>

Rating == <<"r", "a", "t", "i", "n", "g">>

Views == <<"v", "i", "e", "w", "s">>

Trending == <<"t", "r", "e", "n", "d", "i", "n", "g">>

SortKeys == {Some(Price), Some(Rating), Some(Views), Some(Trending)}

SortOrders == {Some("desc"), Some("asc"), Some("des")}

SortListingsInit ==
    \E ids \in DistinctSeqs(DOMAIN SortPool, MaxSorted), sort \in SortKeys,
       order \in SortOrders :
        RestingAt(SortTime, [listings |-> [i \in 1..Len(ids) |-> SortPool[ids[i]]],
                             sort     |-> sort,
                             order    |-> order])

SortListingsCall ==
    /\ calls < MaxCalls
    /\ calls' = calls + 1
    /\ lastCall' = [op          |-> "sortListings",
                    listings    |-> args.listings,
                    sort        |-> args.sort,
                    order       |-> args.order,
                    currentTime |-> now,
                    sorted      |-> sortListings(args.listings, args.sort, args.order, now)]
    /\ UNCHANGED <<engineVars, now, listings, loaderVars, audit, queryScores, cache, log,
                   args, adapter, tables, requests>>

SortListingsNext == SortListingsCall

SortListingsSpec == SortListingsInit /\ [][SortListingsNext]_vars

\* the column a sort key names
Column(listing, sort) ==
    CASE sort = Some(Price)  -> listing.basePrice
      [] sort = Some(Rating) -> listing.rating
      [] sort = Some(Views)  -> listing.views

\* C11: sortListings with sort key price, rating or views returns a permutation of its
\* input, in order of non-increasing key when order is 'desc' and of non-decreasing key
\* when order is 'asc'.
SortedByColumnInOrder ==
    (/\ lastCall.op = "sortListings"
     /\ lastCall.sort \in {Some(Price), Some(Rating), Some(Views)}
     /\ lastCall.order \in {Some("desc"), Some("asc")}) =>
        /\ Len(lastCall.sorted) = Len(lastCall.listings)
        /\ \A i \in 1..Len(lastCall.listings) :
              \E j \in 1..Len(lastCall.sorted) : lastCall.sorted[j] = lastCall.listings[i]
        /\ \A i, j \in 1..Len(lastCall.sorted) :
              i < j =>
                  IF lastCall.order = Some("desc")
                  THEN Column(lastCall.sorted[i], lastCall.sort)
                         >= Column(lastCall.sorted[j], lastCall.sort)
                  ELSE Column(lastCall.sorted[i], lastCall.sort)
                         <= Column(lastCall.sorted[j], lastCall.sort)

\* max(views, 1)
ViewsOrOne(listing) == IF listing.views > 1 THEN listing.views ELSE 1

\* C12: for sort key 'trending' the key compared is (now - addedAt) / max(views, 1): in
\* ascending order a listing comes before another only if its key is not greater, so of
\* two listings without views the one added later comes first.
TrendingKeyIsAgePerView ==
    (/\ lastCall.op = "sortListings"
     /\ lastCall.sort = Some(Trending)
     /\ lastCall.order = Some("asc")) =>
        \A i, j \in 1..Len(lastCall.sorted) :
            i < j =>
                (lastCall.currentTime - lastCall.sorted[i].addedAt)
                    * ViewsOrOne(lastCall.sorted[j])
                  <= (lastCall.currentTime - lastCall.sorted[j].addedAt)
                    * ViewsOrOne(lastCall.sorted[i])

(***************************************************************************)
(* PageSpec: the window offset, limit that GET /listings/ hands to query   *)
(***************************************************************************)
\* offset: int = 0 and limit: int = 10 of the route take any integer up to 40
PageOffsets == {-1, 0, 1, 3}

PageLimits == {-1, 0, 2}

PageInit == SearchInit

PageQuery ==
    /\ loaderPc = "sleep"
    /\ calls < MaxCalls
    /\ \E offset \in PageOffsets, limit \in PageLimits :
          QueryCall(1, 1, None, offset, limit, None, None, Some("desc"), None, 1)

PageNext == LoadInTurn \/ SearchUpdate \/ PageQuery

PageSpec == PageInit /\ [][PageNext]_vars

\* the smaller of two numbers
Least(a, b) == IF a < b THEN a ELSE b

\* C13: for a non-negative offset and limit the page is the slice [offset, offset + limit)
\* of the result: it has at most limit items, the i-th of them is the (offset + i)-th
\* listing of the result, offset >= total and limit = 0 yield an empty page without error,
\* and total is the number of all matching listings.
PageIsWindowOfResult ==
    (/\ lastCall.op = "query"
     /\ lastCall.executed
     /\ lastCall.key.offset >= 0
     /\ lastCall.key.limit >= 0) =>
        /\ lastCall.error = "none"
        /\ lastCall.value.queryData.total = Len(Kept(lastCall))
        /\ Len(lastCall.value.listings) <= lastCall.key.limit
        /\ Len(lastCall.value.listings)
             = IF lastCall.key.offset >= Len(Kept(lastCall)) THEN 0
               ELSE Least(lastCall.key.limit, Len(Kept(lastCall)) - lastCall.key.offset)
        /\ \A i \in 1..Len(lastCall.value.listings) :
              lastCall.value.listings[i].id = Kept(lastCall)[lastCall.key.offset + i]

\* three listings match and the offset is 3: the page is empty and total is 3
OffsetBeyondTotal ==
    /\ lastCall.op = "query"
    /\ lastCall.executed
    /\ lastCall.error = "none"
    /\ lastCall.key.offset = 3
    /\ lastCall.key.limit = 2
    /\ lastCall.value.queryData.total = 3
    /\ lastCall.value.listings = <<>>

\* C14: a query with a negative offset or a negative limit is rejected with an error and
\* returns no page of listings.
NegativeWindowRejected ==
    (/\ lastCall.op = "query"
     /\ lastCall.executed
     /\ (lastCall.key.offset < 0 \/ lastCall.key.limit < 0)) =>
        /\ lastCall.error # "none"
        /\ lastCall.value = None

(***************************************************************************)
(* FaultSpec: the loader when the database or a processDocument call raises *)
(***************************************************************************)
\* line 178: SQLiteAdapter.execute raises the error of the database ('raise data').  No
\* try statement encloses the call, so the exception leaves the while loop and the
\* function: the loader thread ends
FetchRaises ==
    /\ loaderPc = "fetch"
    /\ loaderPc' = "fetchRaised"
    /\ UNCHANGED <<engineVars, now, listings, lastTimestamp, newListings, wakeAt, workers,
                   audit, callVars>>

\* line 213 raises in the pool worker before anything is written (tokeniseQuery calls
\* query.lower() on a title or description that is NULL in the table): the exception is
\* kept in the future
ProcessDocumentRaises(w) ==
    /\ w \in 1..Len(workers)
    /\ workers[w].pc = "corpusLength"
    /\ \A v \in 1..(w - 1) : workers[v].pc = "done"
    /\ workers' = [workers EXCEPT ![w].pc = "raised"]
    /\ UNCHANGED <<engineVars, now, listings, loaderPc, lastTimestamp, newListings, wakeAt,
                   audit, callVars>>

\* lines 197-198: future.result() raises the exception kept in the future, after the
\* futures before it gave their results.  Nothing catches it: lines 201-206 are not run
\* and the loader thread ends
ResultRaises ==
    /\ loaderPc = "result"
    /\ \E w \in 1..Len(workers) :
          /\ workers[w].pc = "raised"
          /\ \A v \in 1..(w - 1) : workers[v].pc = "done"
    /\ loaderPc' = "resultRaised"
    /\ UNCHANGED <<engineVars, now, listings, lastTimestamp, newListings, wakeAt, workers,
                   audit, callVars>>

FaultNext ==
    \/ LoadInTurn
    \/ FetchRaises
    \/ \E w \in 1..Len(workers) : ProcessDocumentRaises(w)
    \/ ResultRaises
    \/ Wake
    \/ Tick
    \/ \E id \in LoaderSubmissions : createListing(id)

FaultSpec == Init /\ [][FaultNext]_vars

\* C15: a failure of getListingsSince does not stop the loader: the thread is never ended
\* by it, it sleeps and fetches again, and the cycle that failed has left the index as it
\* was.
FetchFailureSurvived == loaderPc # "fetchRaised"

\* the documents that have been indexed
Indexed == {termFrequencies[i].k : i \in 1..Len(termFrequencies)}

\* C16: an error raised by processDocument for one row never ends the loader loop, and
\* whenever the loader is between two cycles or has ended, documentCount is the number of
\* documents that were indexed.
ProcessingErrorSurvived ==
    /\ loaderPc # "resultRaised"
    /\ loaderPc \in {"sleep", "fetch", "fetchRaised", "resultRaised"} =>
          documentCount = Cardinality(Indexed)

(***************************************************************************)
(* Scoring while a batch is being indexed (ConcurrentSpec)                 *)
(***************************************************************************)
\* C17: no scoring call made by a query propagates an arithmetic error (the logarithm
\* of a number that is not positive, a division by zero) in any reachable state, the
\* window in which a batch's postings and document frequencies are written and
\* documentCount is still 0 included.
NoArithmeticErrorFromScoring ==
    lastCall.op = "queryDocuments" =>
        lastCall.error \notin {"math domain error", "division by zero"}

(***************************************************************************)
(* ReindexSpec: processDocument called again for a document of the index   *)
(***************************************************************************)
ReindexInit == QueryInit

\* self.processDocument(description, id, title, category, subCategory) for a row whose
\* first processing has ended; the check of lines 184-189 that skipped an id already in
\* termFrequencies is commented out
Reprocess ==
    /\ loaderPc = "sleep"
    /\ calls < MaxCalls
    /\ calls' = calls + 1
    /\ \E i \in 1..Len(listings) :
          /\ DHas(termFrequencies, listings[i].id)
          /\ \E after \in {processDocument(Engine, listings[i].description, listings[i].id,
                                           listings[i].title, listings[i].category,
                                           listings[i].subCategory)} :
                /\ EngineBecomes(after)
                /\ lastCall' = [op |-> "processDocument", id |-> listings[i].id,
                                before |-> Engine, after |-> after]
    /\ UNCHANGED <<now, listings, loaderVars, audit, queryScores, cache, log, args, adapter, tables, requests>>

ReindexNext == LoadInTurn \/ Reprocess

ReindexSpec == ReindexInit /\ [][ReindexNext]_vars

\* C18: processing a document id a second time, with the same title, description,
\* category and subcategory, leaves the postings lists, documentFrequencies,
\* termFrequencies, documentCount and corpusLength as they were after the first
\* processing.
ReprocessingChangesNothing ==
    lastCall.op = "processDocument" =>
        /\ lastCall.after.invertedTermDocIndex = lastCall.before.invertedTermDocIndex
        /\ lastCall.after.documentFrequencies = lastCall.before.documentFrequencies
        /\ lastCall.after.termFrequencies = lastCall.before.termFrequencies
        /\ lastCall.after.documentCount = lastCall.before.documentCount
        /\ lastCall.after.corpusLength = lastCall.before.corpusLength

(***************************************************************************)
(* ScoreSpec: scoreTerm applied to one term at two term frequencies        *)
(***************************************************************************)
\* documents in the corpus
MaxDocuments == 3

\* terms in the document
MaxLength == 4

Toy == <<"t", "o", "y">>

\* the instance whose documentCount and documentFrequencies[term] scoreTerm reads
Corpus(count, term, df) ==
    [EmptyEngine EXCEPT !.documentCount       = count,
                        !.documentFrequencies = <<[k |-> term, v |-> df]>>]

\* the term is in df of the documentCount documents, and tf1 <= tf2 of the terms of the
\* document are the term
ScoreInit ==
    \E count \in 1..MaxDocuments, length \in 1..MaxLength :
        \E df \in 1..count, tf2 \in 1..length :
            \E tf1 \in 1..tf2 :
                RestingAt(1, [documentCount  |-> count,
                              df             |-> df,
                              documentLength |-> length,
                              tf1            |-> tf1,
                              tf2            |-> tf2])

ScoreTermCall ==
    /\ calls < MaxCalls
    /\ calls' = calls + 1
    /\ lastCall' = [op   |-> "scoreTerm",
                    low  |-> scoreTerm(Corpus(args.documentCount, Toy, args.df),
                                       args.documentLength, Toy, args.tf1),
                    high |-> scoreTerm(Corpus(args.documentCount, Toy, args.df),
                                       args.documentLength, Toy, args.tf2)]
    /\ UNCHANGED <<engineVars, now, listings, loaderVars, audit, queryScores, cache, log,
                   args, adapter, tables, requests>>

ScoreNext == ScoreTermCall

ScoreSpec == ScoreInit /\ [][ScoreNext]_vars

\* C19: for a fixed corpus, term and document length, scoreTerm is monotone in the term
\* frequency: tf1 <= tf2 implies scoreTerm(len, term, tf1) <= scoreTerm(len, term, tf2),
\* also for a term that is in more than half of the documents.
ScoreMonotoneInFrequency ==
    lastCall.op = "scoreTerm" =>
        /\ lastCall.low.error = "none"
        /\ lastCall.high.error = "none"
        /\ lastCall.low.score <= lastCall.high.score

(***************************************************************************)
(* StemSpec: tokeniseQuery applied to a word and then to its stripped form *)
(***************************************************************************)
\* the words are a stem followed by up to two endings of SUFFIXES
Stems == {<<"m", "a", "k">>, <<"t", "o", "o", "l">>, <<"s", "i", "z">>,
          <<"w", "i", "d", "g", "e", "t">>}

Endings == {<<>>, <<"s">>, <<"e">>, <<"e", "r">>, <<"i", "n", "g">>}

StemInit ==
    \E stem \in Stems, first \in Endings, second \in Endings :
        RestingAt(1, [word |-> stem \o first \o second])

\* tokeniseQuery(word), and tokeniseQuery(s) for every stripped form s it produced: the
\* keys whose value is the term they were cut from
TokeniseCall ==
    /\ calls < MaxCalls
    /\ calls' = calls + 1
    /\ \E tokenisedQuery \in {tokeniseQuery(args.word, FALSE).dict} :
          lastCall' = [op     |-> "tokeniseQuery",
                       word   |-> args.word,
                       result |-> tokenisedQuery,
                       again  |-> [i \in 1..Len(tokenisedQuery) |->
                                      IF tokenisedQuery[i].v # None
                                      THEN tokeniseQuery(tokenisedQuery[i].k, FALSE).dict
                                      ELSE <<>>]]
    /\ UNCHANGED <<engineVars, now, listings, loaderVars, audit, queryScores, cache, log,
                   args, adapter, tables, requests>>

StemNext == TokeniseCall

StemSpec == StemInit /\ [][StemNext]_vars

\* C20: suffix stripping is a fixed point on its own output: for every word for which
\* tokeniseQuery produces a stripped form s, tokenising s alone yields s and no further
\* stripped term.
StrippedFormIsFixedPoint ==
    lastCall.op = "tokeniseQuery" =>
        \A i \in 1..Len(lastCall.result) :
            lastCall.result[i].v # None =>
                lastCall.again[i] = <<[k |-> lastCall.result[i].k, v |-> None]>>

(***************************************************************************)
(* The index store under queries (QuerySpec)                               *)
(***************************************************************************)
\* C21: the index store is written by the loader only: a call of queryDocuments, with
\* any text, category and subcategory, leaves invertedTermDocIndex, documentFrequencies,
\* termFrequencies, documentCount and corpusLength as they were, their key sets
\* included.
QueryLeavesIndexAlone ==
    [][calls' # calls =>
          UNCHANGED <<invertedTermDocIndex, documentFrequencies, termFrequencies,
                      documentCount, corpusLength>>]_vars

(***************************************************************************)
(* The counters after a batch of parallel workers (Spec)                   *)
(***************************************************************************)
\* the tokens of the title and description of a row
RowTokens(row) == DocumentTerms(row.title, row.description)

\* the sum of the token counts of the rows that were processed
RECURSIVE ProcessedTokens(_)
ProcessedTokens(rows) ==
    IF Len(rows) = 0 THEN 0
    ELSE (IF Head(rows).id \in audit.processed THEN Len(RowTokens(Head(rows))) ELSE 0)
           + ProcessedTokens(Tail(rows))

\* the processed rows that hold the term
ProcessedWith(term) ==
    {i \in 1..Len(listings) :
        /\ listings[i].id \in audit.processed
        /\ \E n \in 1..Len(RowTokens(listings[i])) : RowTokens(listings[i])[n] = term}

\* C22: no update of the parallel workers is lost: once a batch is complete,
\* corpusLength is the sum of the token counts of all documents processed and
\* documentFrequencies[term] is the number of them that hold the term, whatever the
\* interleaving of the workers was.
WorkerUpdatesKept ==
    loaderPc \in {"checkpoint", "sleep", "fetch"} =>
        /\ corpusLength = ProcessedTokens(listings)
        /\ \A i \in 1..Len(documentFrequencies) :
              documentFrequencies[i].v = Cardinality(ProcessedWith(documentFrequencies[i].k))

(***************************************************************************)
(* The order of the steps of a loader cycle (Spec)                         *)
(***************************************************************************)
\* C23: within a cycle the checkpoint of the next cycle is set to the current time
\* before a document of the fetched batch is processed: while the batch is processed
\* and counted, lastTimestamp is the time of this cycle's fetch already, which no
\* fetched row was added after.
CheckpointBeforeProcessing ==
    loaderPc \in {"result", "average"} =>
        \A i \in 1..Len(newListings) : newListings[i].addedAt <= lastTimestamp

(***************************************************************************)
(* PostingSpec: processDocument applied to a title and a description on an *)
(* empty index                                                             *)
(***************************************************************************)
\* words in the title
MaxWords == 3

TitleWords == {<<"t", "o", "y">>, <<"c", "a", "r">>, <<"r", "e", "d">>}

Descriptions == {<<>>, <<"t", "o", "y">>, <<"c", "a", "r">>, <<"r", "e", "d">>}

PostingInit ==
    \E words \in UNION {[1..m -> TitleWords] : m \in 1..MaxWords},
       description \in Descriptions :
        RestingAt(1, [title |-> Join(words, " "), description |-> description])

\* self.processDocument(description, 1, title, 'toys', 'games')
ProcessDocumentCall ==
    /\ calls < MaxCalls
    /\ calls' = calls + 1
    /\ \E after \in {processDocument(Engine, args.description, 1, args.title, "toys",
                                     "games")} :
          /\ EngineBecomes(after)
          /\ lastCall' = [op |-> "processDocument", id |-> 1, before |-> Engine,
                          after |-> after]
    /\ UNCHANGED <<now, listings, loaderVars, audit, queryScores, cache, log, args, adapter, tables, requests>>

PostingNext == ProcessDocumentCall

PostingSpec == PostingInit /\ [][PostingNext]_vars

\* the tokens of the title followed by those of the description
Tokens == Split(Lower(args.title), " ") \o Split(Lower(args.description), " ")

\* how often the term is among the tokens
Occurrences(term) == Cardinality({n \in 1..Len(Tokens) : Tokens[n] = term})

\* C24: for every term of an indexed document the frequency stored in the posting is
\* the number of occurrences of the term among the tokens of the document's title and
\* description: a word that is three times in the title has frequency 3.
PostingCountsOccurrences ==
    lastCall.op = "processDocument" =>
        \A n \in 1..Len(Tokens) :
            Bucket(lastCall.after.invertedTermDocIndex, Tokens[n], "toys", "games")
              = <<<<1, Occurrences(Tokens[n])>>>>

(***************************************************************************)
(* The length normalisation of the scores of a query (QuerySpec)           *)
(***************************************************************************)
\* sum(d.values())
RECURSIVE SumValues(_)
SumValues(d) == IF Len(d) = 0 THEN 0 ELSE Head(d).v + SumValues(Tail(d))

\* idf * (tf * (k1 + 1)) / (tf + k1 * (1 - b + b * length / (total / count))), in
\* millionths; both sides of the division are multiplied by 8 * total
NormalisedByAverage(count, df, length, total, tf) ==
    LET idf         == LnMicro(2 * count - 2 * df + 1) - LnMicro(2 * df + 1)
        numerator   == tf * (K1Halves + 2) * 4 * total
        denominator == 8 * total * tf
                         + K1Halves * (4 - BQuarters) * total
                         + K1Halves * BQuarters * length * count
    IN  (idf \div denominator) * numerator + ((idf % denominator) * numerator) \div denominator

\* the terms of the query that the document holds
MatchedTerms(text, id) ==
    {term \in {DKeys(tokeniseQuery(text, TRUE).dict)[n] :
                   n \in 1..Len(DKeys(tokeniseQuery(text, TRUE).dict))} :
        DHas(DGet(termFrequencies, id, <<>>), term)}

\* C25: the length normalisation of a score is documentLength / averageDocumentLength,
\* with documentLength the sum of the document's term frequencies and
\* averageDocumentLength = corpusLength / documentCount: the score of a document that
\* holds one term of the query is the BM25 score of that term computed with them.
ScoreNormalisedByAverageLength ==
    (/\ lastCall.op = "queryDocuments"
     /\ lastCall.error = "none"
     /\ lastCall.query # None
     /\ lastCall.category = None
     /\ lastCall.subCategory = None) =>
        \A i \in 1..Len(lastCall.scores) :
            \A term \in MatchedTerms(lastCall.query[1], lastCall.scores[i][1]) :
                MatchedTerms(lastCall.query[1], lastCall.scores[i][1]) = {term} =>
                    lastCall.scores[i][2]
                      = NormalisedByAverage(
                            documentCount, DF(term),
                            SumValues(DGet(termFrequencies, lastCall.scores[i][1], <<>>)),
                            corpusLength,
                            DGet(DGet(termFrequencies, lastCall.scores[i][1], <<>>), term, 0))

(***************************************************************************)
(* The counters between two loader cycles (Spec)                           *)
(***************************************************************************)
\* C26: after every completed loader cycle documentCount is the number of rows fetched
\* over all cycles, corpusLength is the sum of the token counts of all processed
\* documents, averageDocumentLength is corpusLength / documentCount, and
\* documentFrequencies[term] <= documentCount for every term; documentCount never
\* decreases.
CountersAfterCycle ==
    /\ [](loaderPc = "sleep" =>
            /\ documentCount = Cardinality(audit.fetched)
            /\ corpusLength = ProcessedTokens(listings)
            /\ documentCount > 0 => averageDocumentLength = <<corpusLength, documentCount>>
            /\ \A i \in 1..Len(documentFrequencies) :
                  documentFrequencies[i].v <= documentCount)
    /\ [][documentCount' >= documentCount]_vars

(***************************************************************************)
(* The windows of successive loader cycles (Spec)                          *)
(***************************************************************************)
\* C27: with a clock that does not go back and addedAt the clock value at insertion, no
\* listing is returned by getListingsSince in two loader cycles: a fetch returns no
\* listing that an earlier fetch returned, so no (term, document) pair gets a second
\* posting.
FetchedOnce ==
    /\ [][(loaderPc = "fetch" /\ loaderPc' # "fetch") =>
             \A i \in 1..Len(newListings') : newListings'[i].id \notin audit.fetched]_vars
    /\ [](\A t \in 1..Len(invertedTermDocIndex) :
             \A c \in 1..Len(invertedTermDocIndex[t].v) :
                \A b \in 1..Len(invertedTermDocIndex[t].v[c].v) :
                   \A m, n \in 1..Len(invertedTermDocIndex[t].v[c].v[b].v) :
                      m # n => invertedTermDocIndex[t].v[c].v[b].v[m][1]
                                 # invertedTermDocIndex[t].v[c].v[b].v[n][1])

\* a later cycle has fetched a listing while the table holds one that an earlier cycle
\* indexed and counted
LaterCycleFetchesNewOnly ==
    /\ loaderPc = "result"
    /\ audit.counted # {}
    /\ Len(listings) = 2
    /\ Len(newListings) = 1
    /\ newListings[1].id \notin audit.counted

(***************************************************************************)
(* AdapterSpec: SQLiteAdapter, its _processQueue thread, threads that call *)
(* execute and a thread that calls close                                   *)
(***************************************************************************)
\* threads that call execute
MaxCallers == 2

\* the None that close puts on query_queue; a QueryTask is the number of its caller,
\* whose requests record holds its resultQueue
Sentinel == 0

Caller(op) == [op |-> op, pc |-> "start", outcome |-> "none", early |-> FALSE]

AdapterInit ==
    \E n \in 0..MaxCallers :
        ServingAt(1, <<>>, NoTables,
                  [r \in 1..(n + 1) |-> IF r <= n THEN Caller("execute") ELSE Caller("close")])

\* _processQueue, lines 68-69: sqlite3.connect and _initConnection
Connect ==
    /\ adapter.worker = "connect"
    /\ adapter' = [adapter EXCEPT !.worker = "loop", !.connection = "open"]
    /\ UNCHANGED <<engineVars, now, listings, loaderVars, audit, calls, lastCall,
                   queryScores, cache, log, args, tables, requests>>

\* line 71, while self.running: the thread goes on to get, or leaves the loop and ends
TestRunning ==
    /\ adapter.worker = "loop"
    /\ adapter' = [adapter EXCEPT !.worker = IF adapter.running THEN "get" ELSE "ended"]
    /\ UNCHANGED <<engineVars, now, listings, loaderVars, audit, calls, lastCall,
                   queryScores, cache, log, args, tables, requests>>

\* lines 73-77 and 108-109: query_queue.get() returns the oldest item; on None the loop
\* is left through the finally clause, which calls task_done
GetTask ==
    /\ adapter.worker = "get"
    /\ Len(adapter.queue) > 0
    /\ adapter' = IF Head(adapter.queue) = Sentinel
                  THEN [adapter EXCEPT !.queue = Tail(@), !.unfinished = @ - 1,
                                       !.worker = "ended"]
                  ELSE [adapter EXCEPT !.queue = Tail(@), !.task = Head(adapter.queue),
                                       !.worker = "run"]
    /\ UNCHANGED <<engineVars, now, listings, loaderVars, audit, calls, lastCall,
                   queryScores, cache, log, args, tables, requests>>

\* lines 79-109: the query is executed, ('result', ...) or ('error', e) is put on the
\* task's resultQueue, and the finally clause calls task_done
RunTask ==
    /\ adapter.worker = "run"
    /\ \E status \in {"result", "error"} :
          requests' = [requests EXCEPT ![adapter.task].outcome = status]
    /\ adapter' = [adapter EXCEPT !.unfinished = @ - 1, !.task = 0, !.worker = "loop"]
    /\ UNCHANGED <<engineVars, now, listings, loaderVars, audit, calls, lastCall,
                   queryScores, cache, log, args, tables>>

\* execute, lines 118-120: the task is put on query_queue
ExecutePut(r) ==
    /\ requests[r].op = "execute"
    /\ requests[r].pc = "start"
    /\ adapter' = [adapter EXCEPT !.queue = Append(@, r), !.unfinished = @ + 1]
    /\ requests' = [requests EXCEPT ![r].pc = "wait", ![r].early = adapter.running]
    /\ UNCHANGED <<engineVars, now, listings, loaderVars, audit, calls, lastCall,
                   queryScores, cache, log, args, tables>>

\* execute, lines 123-126: result_queue.get() returns, the data is returned or raised
ExecuteReturn(r) ==
    /\ requests[r].op = "execute"
    /\ requests[r].pc = "wait"
    /\ requests[r].outcome # "none"
    /\ requests' = [requests EXCEPT ![r].pc = "returned"]
    /\ UNCHANGED <<engineVars, now, listings, loaderVars, audit, calls, lastCall,
                   queryScores, cache, log, args, adapter, tables>>

\* close, line 139: self.running = False
CloseStop(r) ==
    /\ requests[r].op = "close"
    /\ requests[r].pc = "start"
    /\ adapter' = [adapter EXCEPT !.running = FALSE]
    /\ requests' = [requests EXCEPT ![r].pc = "put"]
    /\ UNCHANGED <<engineVars, now, listings, loaderVars, audit, calls, lastCall,
                   queryScores, cache, log, args, tables>>

\* close, line 140: self.query_queue.put(None)
ClosePut(r) ==
    /\ requests[r].op = "close"
    /\ requests[r].pc = "put"
    /\ adapter' = [adapter EXCEPT !.queue = Append(@, Sentinel), !.unfinished = @ + 1]
    /\ requests' = [requests EXCEPT ![r].pc = "join"]
    /\ UNCHANGED <<engineVars, now, listings, loaderVars, audit, calls, lastCall,
                   queryScores, cache, log, args, tables>>

\* close, lines 141-143: query_queue.join() returns when no task is unfinished, then the
\* connection, if there is one, is closed
CloseJoin(r) ==
    /\ requests[r].op = "close"
    /\ requests[r].pc = "join"
    /\ adapter.unfinished = 0
    /\ adapter' = [adapter EXCEPT
                      !.connection = IF @ = "open" THEN "closed" ELSE @]
    /\ requests' = [requests EXCEPT ![r].pc = "returned"]
    /\ UNCHANGED <<engineVars, now, listings, loaderVars, audit, calls, lastCall,
                   queryScores, cache, log, args, tables>>

\* a step of the _processQueue thread
WorkerStep == Connect \/ TestRunning \/ GetTask \/ RunTask

\* a step of a calling thread
CallerStep(r) ==
    /\ r \in 1..Len(requests)
    /\ (ExecutePut(r) \/ ExecuteReturn(r) \/ CloseStop(r) \/ ClosePut(r) \/ CloseJoin(r))

AdapterNext == WorkerStep \/ \E r \in 1..(MaxCallers + 1) : CallerStep(r)

AdapterSpec == AdapterInit /\ [][AdapterNext]_vars

\* every thread that can take a step is scheduled in the end
AdapterFairSpec ==
    /\ AdapterSpec
    /\ WF_vars(WorkerStep)
    /\ \A r \in 1..(MaxCallers + 1) : WF_vars(CallerStep(r))

\* the thread of this number, if there is one
ThreadAt(r) == IF r \in 1..Len(requests) THEN requests[r] ELSE Caller("none")

\* C28: close() always returns, whatever the interleaving with execute() calls in
\* flight, and every execute() that was queued before close() began gets its result or
\* error.
CloseAlwaysReturns ==
    \A r \in 1..(MaxCallers + 1) :
        /\ <>(ThreadAt(r).op = "close" => ThreadAt(r).pc = "returned")
        /\ [](ThreadAt(r).pc = "wait" /\ ThreadAt(r).early
                => <>(ThreadAt(r).pc = "returned"))

(***************************************************************************)
(* CheckoutSpec: POST /transactions/checkout requests for one SKU, each    *)
(* served by a thread of the server's pool                                 *)
(***************************************************************************)
\* the stock of the SKU before the requests
MaxStock == 2

\* requests in flight
MaxBuyers == 2

\* basket.items[sku.id]['quantity']
Quantities == {1, 2}

\* a request for this quantity; stock is sku.stock as idsToSKUs read it
Checkout(quantity) ==
    [op |-> "submitCheckout", pc |-> "start", quantity |-> quantity, stock |-> 0,
     paid |-> FALSE, status |-> 0]

CheckoutInit ==
    \E stock \in 1..MaxStock, n \in 1..MaxBuyers :
        \E quantities \in [1..n -> Quantities] :
            ServingAt(1, [stock |-> stock],
                      [skus |-> <<[id |-> 1, stock |-> stock]>>, orders |-> <<>>],
                      [r \in 1..n |-> Checkout(quantities[r])])

\* line 72: skus = data.idsToSKUs(basket.items.keys(), SKUWithUser)
ReadSKUs(r) ==
    /\ requests[r].op = "submitCheckout"
    /\ requests[r].pc = "start"
    /\ requests' = [requests EXCEPT ![r].stock = tables.skus[1].stock, ![r].pc = "guard"]
    /\ UNCHANGED <<engineVars, now, listings, loaderVars, audit, calls, lastCall,
                   queryScores, cache, log, args, adapter, tables>>

\* lines 93-110: the guard on sku.stock raises HTTPException(409), or the payment is made
CheckStockAndPay(r) ==
    /\ requests[r].op = "submitCheckout"
    /\ requests[r].pc = "guard"
    /\ requests' = IF requests[r].stock < requests[r].quantity
                   THEN [requests EXCEPT ![r].status = 409, ![r].pc = "returned"]
                   ELSE [requests EXCEPT ![r].paid = TRUE, ![r].pc = "order"]
    /\ UNCHANGED <<engineVars, now, listings, loaderVars, audit, calls, lastCall,
                   queryScores, cache, log, args, adapter, tables>>

\* lines 112-130: data.addPurchase and data.addOrder
AddOrders(r) ==
    /\ requests[r].op = "submitCheckout"
    /\ requests[r].pc = "order"
    /\ tables' = [tables EXCEPT !.orders = Append(@, [request  |-> r,
                                                      quantity |-> requests[r].quantity,
                                                      status   |-> "Processing"])]
    /\ requests' = [requests EXCEPT ![r].pc = "stock"]
    /\ UNCHANGED <<engineVars, now, listings, loaderVars, audit, calls, lastCall,
                   queryScores, cache, log, args, adapter>>

\* lines 132-141: data.updateSKUStock(sku.id, sku.stock - quantity), UPDATE skus SET
\* stock = ?, and the response
UpdateStock(r) ==
    /\ requests[r].op = "submitCheckout"
    /\ requests[r].pc = "stock"
    /\ tables' = [tables EXCEPT !.skus[1].stock = requests[r].stock - requests[r].quantity]
    /\ requests' = [requests EXCEPT ![r].status = 200, ![r].pc = "returned"]
    /\ UNCHANGED <<engineVars, now, listings, loaderVars, audit, calls, lastCall,
                   queryScores, cache, log, args, adapter>>

CheckoutNext ==
    \E r \in 1..Len(requests) :
        ReadSKUs(r) \/ CheckStockAndPay(r) \/ AddOrders(r) \/ UpdateStock(r)

CheckoutSpec == CheckoutInit /\ [][CheckoutNext]_vars

\* the quantity sold by the accepted checkouts among these requests
RECURSIVE Sold(_)
Sold(threads) ==
    IF Len(threads) = 0 THEN 0
    ELSE (IF Head(threads).status = 200 THEN Head(threads).quantity ELSE 0)
           + Sold(Tail(threads))

\* C29: checkout never oversells: the quantity sold in accepted checkouts does not
\* exceed the initial stock of the SKU, once no request is in flight the stored stock is
\* the initial stock minus the quantity sold and never negative, and a checkout that is
\* answered with 409 has made no payment and no order.
NeverOversold ==
    /\ Sold(requests) <= args.stock
    /\ tables.skus[1].stock >= 0
    /\ (\A r \in 1..Len(requests) : requests[r].pc = "returned") =>
          tables.skus[1].stock = args.stock - Sold(requests)
    /\ \A r \in 1..Len(requests) :
          requests[r].status = 409 =>
              /\ ~requests[r].paid
              /\ \A i \in 1..Len(tables.orders) : tables.orders[i].request # r
    /\ \A r \in 1..Len(requests) :
          requests[r].quantity > args.stock =>
              requests[r].pc \in {"start", "guard"} \/ requests[r].status = 409

(***************************************************************************)
(* OrderSpec: PUT /transactions/{orderID} requests on one order, each      *)
(* served by a thread of the server's pool                                 *)
(***************************************************************************)
\* requests in flight
MaxUpdates == 2

OrderStatuses == {"Processing", "Dispatched", "Out for delivery", "Delivered", "Cancelled"}

\* the order's seller, its recipient and a third user
Users == {"seller", "recipient", "other"}

\* a request of this user for this status; existing is existingOrder.status as
\* getOrderByID read it
Update(user, status) ==
    [op |-> "updateOrder", pc |-> "start", user |-> user, requested |-> status,
     existing |-> "", status |-> 0]

OrderInit ==
    \E stored \in {"Processing", "Cancelled"}, n \in 1..MaxUpdates :
        \E users \in [1..n -> Users], statuses \in [1..n -> OrderStatuses] :
            ServingAt(1, <<>>,
                      [skus |-> <<>>,
                       orders |-> <<[seller |-> "seller", recipient |-> "recipient",
                                     status |-> stored]>>],
                      [r \in 1..n |-> Update(users[r], statuses[r])])

\* line 165: existingOrder = data.getOrderByID(orderID)
GetOrder(r) ==
    /\ requests[r].op = "updateOrder"
    /\ requests[r].pc = "start"
    /\ requests' = [requests EXCEPT ![r].existing = tables.orders[1].status,
                                    ![r].pc = "check"]
    /\ UNCHANGED <<engineVars, now, listings, loaderVars, audit, calls, lastCall,
                   queryScores, cache, log, args, adapter, tables>>

\* lines 170-176: 403 for a user who may not make this update, 409 for an order read as
\* cancelled
CheckOrder(r) ==
    /\ requests[r].op = "updateOrder"
    /\ requests[r].pc = "check"
    /\ requests' =
          IF /\ tables.orders[1].seller # requests[r].user
             /\ \/ requests[r].requested # "Cancelled"
                \/ tables.orders[1].recipient # requests[r].user
          THEN [requests EXCEPT ![r].status = 403, ![r].pc = "returned"]
          ELSE IF requests[r].existing = "Cancelled"
          THEN [requests EXCEPT ![r].status = 409, ![r].pc = "returned"]
          ELSE [requests EXCEPT ![r].pc = "update"]
    /\ UNCHANGED <<engineVars, now, listings, loaderVars, audit, calls, lastCall,
                   queryScores, cache, log, args, adapter, tables>>

\* lines 178-194 and data.py 641-654: UPDATE orders SET status = ? WHERE id = ?; the
\* comparison status == 'CANCELLED' is false for every member of OrderStatuses, so no
\* balance is touched
UpdateOrderStatus(r) ==
    /\ requests[r].op = "updateOrder"
    /\ requests[r].pc = "update"
    /\ tables' = [tables EXCEPT !.orders[1].status = requests[r].requested]
    /\ requests' = [requests EXCEPT ![r].status = 200, ![r].pc = "returned"]
    /\ UNCHANGED <<engineVars, now, listings, loaderVars, audit, calls, lastCall,
                   queryScores, cache, log, args, adapter>>

OrderNext ==
    \E r \in 1..Len(requests) : GetOrder(r) \/ CheckOrder(r) \/ UpdateOrderStatus(r)

OrderSpec == OrderInit /\ [][OrderNext]_vars

\* the stored status of the order, "" when the table holds no order
StoredStatus == IF Len(tables.orders) = 0 THEN "" ELSE tables.orders[1].status

\* the request in this position, a finished one when there is none
RequestAt(r) ==
    IF r \in 1..Len(requests) THEN requests[r]
    ELSE [op |-> "none", pc |-> "returned", user |-> "seller", requested |-> "",
          existing |-> "", status |-> 0]

\* C30: CANCELLED is terminal: once the stored status of the order is Cancelled no
\* updateOrder request changes it, a request of the seller or of the cancelling
\* recipient that read the order as cancelled is answered 409, and a request of a user
\* who is not the seller is accepted only when it sets Cancelled and the user is the
\* order's recipient.
CancelledIsTerminal ==
    /\ [][StoredStatus = "Cancelled" => StoredStatus' = "Cancelled"]_vars
    /\ [](\A r \in 1..MaxUpdates + 1 :
            /\ (RequestAt(r).op = "updateOrder" /\ RequestAt(r).status = 200
                    /\ RequestAt(r).user # "seller")
                 => (RequestAt(r).requested = "Cancelled" /\ RequestAt(r).user = "recipient")
            /\ (RequestAt(r).op = "updateOrder" /\ RequestAt(r).existing = "Cancelled"
                    /\ RequestAt(r).pc = "returned")
                 => RequestAt(r).status \in {403, 409})

====
